---- MODULE Spec2Model ----
(***************************************************************************)
(* Krishi Sujhav farmer assistant (backend/app.py, backend/farmer_services.py). *)
(*                                                                         *)
(* The model covers the chat pipeline of FarmingAI: the keyword intent     *)
(* classifier, the dispatch of get_farming_response to its handlers, the   *)
(* two transport paths of the Gemini gateway, and the /api/chat endpoint   *)
(* with its session-size check on the Chats table, also under concurrent  *)
(* requests, the weather and mandi caches, and the password-reset flow     *)
(* of send_otp, verify_otp and reset_password.                             *)
(*                                                                         *)
(* Strings are TLA+ strings.  A character outside ASCII is written as the  *)
(* token {uXXXX} of its code point, so a keyword in Devanagari or Gurmukhi *)
(* keeps its identity and can only match a message holding the same        *)
(* tokens.                                                                 *)
(***************************************************************************)
EXTENDS Integers, Sequences, FiniteSets, TLC

VARIABLES
  \* ---- process configuration (module import time) ----
  gemini_model,      \* TRUE iff the native client object was built (app.py 304-317)
  GEMINI_API_KEY,    \* TRUE iff the environment holds a non-empty key (app.py 300)
  \* ---- one call of FarmingAI.get_farming_response / _get_gemini_response ----
  pc,                \* position of the call: "idle", "received", "classified", "done"
  request,           \* [message, language]
  preds,             \* the classifier predicates of request.message
  env,               \* what the external services did during the call
  result,            \* what the call gave back, and the external calls it made
  \* ---- the HTTP endpoints and their stores ----
  chats,             \* Chats table: SessionID -> UserID -> characters summed by the size query
  cookie,            \* per browser, the Flask session: user_email, active_chat_session
  serving,           \* the /api/chat request between its size check and its insert
  reached,           \* history: the session ids whose stored size has reached the ceiling
  last,              \* the last HTTP response sent
  \* ---- history of the classifier ----
  classified,        \* the classifications made so far, in order
  \* ---- /api/chat requests served at the same time ----
  inflight,          \* per worker thread, the chat request it is serving
  late,              \* history: per session id, the rows inserted when the stored
                     \* size had reached the ceiling already
  \* ---- the clock and the in-process caches ----
  now,               \* datetime.now(), in seconds since the process started
  OPENWEATHER_API_KEY, \* TRUE iff the environment holds a non-empty key (app.py 301)
  weather_cache,     \* weather_cache (app.py 473): location -> (data, timestamp)
  mandi_api_key,     \* TRUE iff MandiPriceService.api_key is non-empty (farmer_services.py 83)
  mandi_cache,       \* MandiPriceService.cache (farmer_services.py 84): key -> (data, timestamp)
  cache_read,        \* the last call of _get_weather_data or _fetch_from_api and its value
  \* ---- the password-reset flow ----
  otp_store,         \* otp_store (app.py 71): email -> the OTP entry
  passwords,         \* Users.PasswordHash by email
  minted,            \* how many reset tokens secrets.token_urlsafe has handed out
  otp_reply,         \* the last response of send_otp, verify_otp or reset_password
  issued,            \* history: per email, the times send_otp stored a new OTP
  granted,           \* history: per email, the reset token of the latest successful verify_otp
  spent              \* history: the reset tokens that changed a password

orchVars == <<pc, request, preds, env, result>>
cfgVars == <<gemini_model, GEMINI_API_KEY>>
httpVars == <<chats, cookie, serving, reached, last>>
histVars == <<classified>>
raceVars == <<inflight, late>>
cacheVars == <<OPENWEATHER_API_KEY, weather_cache, mandi_api_key, mandi_cache, cache_read>>
otpVars == <<otp_store, passwords, minted, otp_reply, issued, granted, spent>>
extVars == <<raceVars, now, cacheVars, otpVars>>
vars ==
  <<gemini_model, GEMINI_API_KEY, pc, request, preds, env, result,
    chats, cookie, serving, reached, last, classified, inflight, late,
    now, OPENWEATHER_API_KEY, weather_cache, mandi_api_key, mandi_cache, cache_read,
    otp_store, passwords, minted, otp_reply, issued, granted, spent>>

(***************************************************************************)
(* Strings: str.lower, str.strip, the `in` substring test, re \b           *)
(***************************************************************************)
CharAt(s, i) == SubSeq(s, i, i)

UpperCase ==
  {"A", "B", "C", "D", "E", "F", "G", "H", "I", "J", "K", "L", "M",
   "N", "O", "P", "Q", "R", "S", "T", "U", "V", "W", "X", "Y", "Z"}

LowerChar(c) ==
  CASE c = "A" -> "a" [] c = "B" -> "b" [] c = "C" -> "c" [] c = "D" -> "d"
    [] c = "E" -> "e" [] c = "F" -> "f" [] c = "G" -> "g" [] c = "H" -> "h"
    [] c = "I" -> "i" [] c = "J" -> "j" [] c = "K" -> "k" [] c = "L" -> "l"
    [] c = "M" -> "m" [] c = "N" -> "n" [] c = "O" -> "o" [] c = "P" -> "p"
    [] c = "Q" -> "q" [] c = "R" -> "r" [] c = "S" -> "s" [] c = "T" -> "t"
    [] c = "U" -> "u" [] c = "V" -> "v" [] c = "W" -> "w" [] c = "X" -> "x"
    [] c = "Y" -> "y" [] c = "Z" -> "z" [] OTHER -> c

RECURSIVE LowerFrom(_, _)
LowerFrom(s, i) ==
  IF i > Len(s) THEN "" ELSE LowerChar(CharAt(s, i)) \o LowerFrom(s, i + 1)

\* str.lower()
Lower(s) == LowerFrom(s, 1)

Whitespace == {" ", "\t", "\n", "\r"}

\* a strip that leaves its argument as it is
Strip_identity(s) == s

\* str.strip(): drop leading and trailing whitespace
Strip(s) ==
  LET keep == {i \in 1..Len(s) : CharAt(s, i) \notin Whitespace}
  IN  IF keep = {} THEN ""
      ELSE SubSeq(s, CHOOSE i \in keep : \A j \in keep : i <= j,
                     CHOOSE i \in keep : \A j \in keep : i >= j)

\* k in s
Contains(k, s) ==
  \E i \in 1..(Len(s) - Len(k) + 1) : SubSeq(s, i, i + Len(k) - 1) = k

\* any(k in s for k in ks)
AnyIn(ks, s) == \E k \in ks : Contains(k, s)

\* \w of the re module, on the characters a lower-cased ASCII message holds
WordChars ==
  {"a", "b", "c", "d", "e", "f", "g", "h", "i", "j", "k", "l", "m",
   "n", "o", "p", "q", "r", "s", "t", "u", "v", "w", "x", "y", "z",
   "0", "1", "2", "3", "4", "5", "6", "7", "8", "9", "_"} \cup UpperCase

\* re.search(r'\bw\b', s) for a word w of word characters
WordMatch(w, s) ==
  \E i \in 1..(Len(s) - Len(w) + 1) :
    /\ SubSeq(s, i, i + Len(w) - 1) = w
    /\ (i = 1 \/ CharAt(s, i - 1) \notin WordChars)
    /\ (i + Len(w) - 1 = Len(s) \/ CharAt(s, i + Len(w)) \notin WordChars)

(***************************************************************************)
(* Vocabularies of FarmingAI                                               *)
(***************************************************************************)
\* self.farming_keywords
farming_keywords ==
  {
    "crop", "crops", "plant", "plants", "seed", "seeds", "farming", "agriculture",
    "agricultural", "wheat", "rice", "corn", "maize", "barley", "soybean", "cotton",
    "sugarcane", "potato", "tomato", "vegetable", "vegetables", "fruit", "fruits", "grain",
    "grains", "cereal", "pulses", "legume", "onion", "garlic", "cabbage", "cauliflower",
    "carrot", "beans", "peas", "chili", "pepper", "banana", "mango", "apple", "orange", "grape",
    "papaya", "guava", "pomegranate", "harvest", "harvesting", "planting", "sowing",
    "cultivation", "growing", "pruning", "weeding", "transplanting", "mulching", "tilling",
    "hoeing", "soil", "fertilizer", "fertilizers", "manure", "compost", "nutrients", "nitrogen",
    "phosphorus", "potassium", "npk", "organic", "vermicompost", "urea", "dap", "mop", "ssp",
    "zinc", "sulphur", "sulfur", "boron", "calcium", "magnesium", "micronutrient",
    "micronutrients", "fertiliser", "pest", "pests", "disease", "diseases", "insect", "insects",
    "bug", "bugs", "fungus", "fungi", "blight", "rot", "wilt", "mold", "mould", "infection",
    "pesticide", "herbicide", "fungicide", "aphid", "caterpillar", "worm", "beetle", "locust",
    "termite", "nematode", "irrigation", "water", "watering", "drought", "rain", "rainfall",
    "monsoon", "drip", "sprinkler", "weather", "climate", "season", "seasonal", "temperature",
    "humidity", "market", "price", "prices", "selling", "buying", "profit", "cost", "economics",
    "income", "yield", "livestock", "cattle", "cow", "cows", "buffalo", "goat", "goats",
    "sheep", "chicken", "poultry", "dairy", "milk", "egg", "eggs", "meat", "animal", "fodder",
    "feed", "tractor", "plow", "plough", "equipment", "machinery", "tools", "farm", "farmer",
    "field", "land", "plot", "greenhouse", "nursery", "garden", "orchard",
    "{u0930}{u094b}{u092a}{u0923}", "{u0915}{u091f}{u093e}{u0908}",
    "{u0938}{u093f}{u0902}{u091a}{u093e}{u0908}", "{u092c}{u0940}{u092e}{u093e}{u0930}{u0940}",
    "{u0909}{u092a}{u091a}{u093e}{u0930}", "treatment", "cure", "remedy",
    "{u0916}{u0947}{u0924}{u0940}", "{u092b}{u0938}{u0932}",
    "{u0915}{u093f}{u0938}{u093e}{u0928}", "{u092c}{u0940}{u091c}", "{u0916}{u093e}{u0926}",
    "{u092a}{u093e}{u0928}{u0940}", "{u0930}{u094b}{u0917}", "{u0915}{u0940}{u091f}"
  }

\* self.non_farming_topics
non_farming_topics ==
  {
    "movie", "movies", "film", "cinema", "actor", "actress", "song", "music", "singer",
    "cricket", "football", "sports", "game", "match", "player", "politics", "election",
    "government", "minister", "president", "recipe", "cooking", "food preparation",
    "restaurant", "programming", "code", "software", "computer", "laptop", "phone", "love",
    "romance", "dating", "relationship", "math", "physics", "chemistry", "history", "geography",
    "stock market", "cryptocurrency", "bitcoin"
  }

\* is_update_query: update_keywords
update_keywords ==
  {
    "update", "updates", "current", "latest", "recent", "news", "today", "now", "what's new",
    "whats new", "happening", "going on", "this week", "this month", "currently", "present",
    "nowadays", "these days", "right now", "{u0905}{u092a}{u0921}{u0947}{u091f}",
    "{u0938}{u092e}{u093e}{u091a}{u093e}{u0930}", "{u0924}{u093e}{u091c}{u093c}{u093e}",
    "{u0928}{u0935}{u0940}{u0928}{u0924}{u092e}",
    "{u0935}{u0930}{u094d}{u0924}{u092e}{u093e}{u0928}", "{u0905}{u092d}{u0940}",
    "{u0906}{u091c}", "{u0905}{u0926}{u094d}{u092f}{u0924}{u0928}",
    "{u092c}{u093e}{u0924}{u092e}{u0940}", "{u0924}{u093e}{u091c}{u094d}{u092f}{u093e}",
    "{u0938}{u0927}{u094d}{u092f}{u093e}", "{u0906}{u0924}{u094d}{u0924}{u093e}"
  }

\* is_weather_query: weather_keywords
weather_keywords ==
  {
    "weather", "rain", "raining", "rainfall", "temperature", "climate", "forecast", "snow",
    "snowing", "monsoon", "humidity", "wind", "storm", "cyclone", "hot", "cold", "sunny",
    "cloudy", "will it rain", "going to rain", "{u092e}{u094c}{u0938}{u092e}",
    "{u092c}{u093e}{u0930}{u093f}{u0936}", "{u0935}{u0930}{u094d}{u0937}{u093e}",
    "{u0924}{u093e}{u092a}{u092e}{u093e}{u0928}", "{u091c}{u0932}{u0935}{u093e}{u092f}{u0941}",
    "{u092a}{u0942}{u0930}{u094d}{u0935}{u093e}{u0928}{u0941}{u092e}{u093e}{u0928}",
    "{u0939}{u0935}{u093e}{u092e}{u093e}{u0928}", "{u092a}{u093e}{u090a}{u0938}",
    "{u0905}{u0902}{u0926}{u093e}{u091c}", "{u0a2e}{u0a4c}{u0a38}{u0a2e}",
    "{u0a2c}{u0a3e}{u0a30}{u0a3f}{u0a38}{u0a3c}", "{u0a24}{u0a3e}{u0a2a}{u0a2e}{u0a3e}{u0a28}"
  }

\* is_crop_recommendation_query: crop_keywords
crop_keywords ==
  {
    "crop", "crops", "plant", "grow", "cultivat", "suitable", "best", "recommend", "sow",
    "seed", "farming", "{u092b}{u0938}{u0932}", "{u092a}{u0940}{u0915}",
    "{u0a2b}{u0a38}{u0a32}", "{u092c}{u094b}{u0928}{u093e}",
    "{u0909}{u0917}{u093e}{u0928}{u093e}"
  }

\* is_crop_recommendation_query: weather_location_keywords
weather_location_keywords ==
  {
    "weather", "climate", "season", "location", "area", "region", "here", "my location",
    "current", "{u092e}{u094c}{u0938}{u092e}", "{u091c}{u0917}{u0939}",
    "{u0915}{u094d}{u0937}{u0947}{u0924}{u094d}{u0930}",
    "{u0939}{u0935}{u093e}{u092e}{u093e}{u0928}", "{u0a2e}{u0a4c}{u0a38}{u0a2e}"
  }

\* is_crop_recommendation_query: its local soil_keywords
crop_soil_keywords ==
  {
    "soil", "land", "{u092e}{u093f}{u091f}{u094d}{u091f}{u0940}",
    "{u091c}{u092e}{u0940}{u0928}", "{u092e}{u093e}{u0924}{u0940}",
    "{u0a2e}{u0a3f}{u0a71}{u0a1f}{u0a40}"
  }

\* is_mandi_price_query: price_keywords
price_keywords ==
  {
    "mandi", "market price", "rate", "bhav", "msp", "minimum support price", "selling price",
    "what price", "commodity price", "grain price", "{u092e}{u0902}{u0921}{u0940}",
    "{u092d}{u093e}{u0935}", "{u0926}{u093e}{u092e}", "{u092c}{u093e}{u091c}{u093e}{u0930}",
    "{u0915}{u0940}{u092e}{u0924}", "{u0930}{u0947}{u091f}",
    "{u0928}{u094d}{u092f}{u0942}{u0928}{u0924}{u092e} {u0938}{u092e}{u0930}{u094d}{u0925}{u0928} {u092e}{u0942}{u0932}{u094d}{u092f}",
    "{u092c}{u093e}{u091c}{u093e}{u0930} {u092d}{u093e}{u0935}",
    "{u092c}{u093e}{u091c}{u093e}{u0930}{u092d}{u093e}{u0935}",
    "{u0915}{u093f}{u0902}{u092e}{u0924}", "{u0926}{u0930}",
    "{u092c}{u093e}{u091c}{u093e}{u0930} {u0926}{u0930}", "{u0a2e}{u0a70}{u0a21}{u0a40}",
    "{u0a2d}{u0a3e}{u0a05}", "{u0a15}{u0a40}{u0a2e}{u0a24}", "{u0a30}{u0a47}{u0a1f}"
  }

\* is_scheme_query: scheme_keywords
scheme_keywords ==
  {
    "scheme", "yojana", "pm-kisan", "pmkisan", "pm kisan", "pmfby", "kcc", "kisan credit",
    "subsidy", "government scheme", "sarkari yojana", "loan", "insurance", "crop insurance",
    "pm-fasal", "pradhan mantri",
    "{u0938}{u0930}{u0915}{u093e}{u0930}{u0940} {u092f}{u094b}{u091c}{u0928}{u093e}",
    "{u092f}{u094b}{u091c}{u0928}{u093e}", "{u0938}{u092c}{u094d}{u0938}{u093f}{u0921}{u0940}",
    "{u092a}{u094d}{u0930}{u0927}{u093e}{u0928}{u092e}{u0902}{u0924}{u094d}{u0930}{u0940}",
    "{u092a}{u0940}{u090f}{u092e} {u0915}{u093f}{u0938}{u093e}{u0928}",
    "{u092c}{u0940}{u092e}{u093e}",
    "{u0915}{u093f}{u0938}{u093e}{u0928} {u0915}{u094d}{u0930}{u0947}{u0921}{u093f}{u091f}",
    "{u090b}{u0923}", "{u0915}{u0930}{u094d}{u091c}",
    "{u0936}{u093e}{u0938}{u0915}{u0940}{u092f} {u092f}{u094b}{u091c}{u0928}{u093e}",
    "{u0936}{u0947}{u0924}{u0915}{u0930}{u0940} {u092f}{u094b}{u091c}{u0928}{u093e}",
    "{u0a2f}{u0a4b}{u0a1c}{u0a28}{u0a3e}", "{u0a38}{u0a2c}{u0a38}{u0a3f}{u0a21}{u0a40}",
    "{u0a38}{u0a30}{u0a15}{u0a3e}{u0a30}{u0a40}"
  }

\* is_soil_query: soil_keywords
soil_keywords ==
  {
    "soil health", "soil test", "npk", "fertilizer dose", "fertilizer quantity",
    "how much urea", "how much dap", "fertilizer calculator", "soil problem", "yellow leaves",
    "nutrient deficiency", "soil analysis", "soil report",
    "{u092e}{u093f}{u091f}{u094d}{u091f}{u0940} {u091c}{u093e}{u0902}{u091a}",
    "{u092e}{u093f}{u091f}{u094d}{u091f}{u0940} {u0938}{u094d}{u0935}{u093e}{u0938}{u094d}{u0925}{u094d}{u092f}",
    "{u0916}{u093e}{u0926} {u092e}{u093e}{u0924}{u094d}{u0930}{u093e}",
    "{u0915}{u093f}{u0924}{u0928}{u093e} {u092f}{u0942}{u0930}{u093f}{u092f}{u093e}",
    "{u0915}{u093f}{u0924}{u0928}{u093e} {u0921}{u0940}{u090f}{u092a}{u0940}",
    "{u092a}{u0940}{u0932}{u0947} {u092a}{u0924}{u094d}{u0924}{u0947}",
    "{u092e}{u093e}{u0924}{u0940} {u0924}{u092a}{u093e}{u0938}{u0923}{u0940}",
    "{u0916}{u0924} {u092e}{u093e}{u0924}{u094d}{u0930}{u093e}"
  }

\* is_economics_query: econ_keywords
econ_keywords ==
  {
    "profit", "loss", "cost of cultivation", "roi", "return on investment", "how much earn",
    "how much profit", "farming profit", "crop economics", "breakeven", "cultivation cost",
    "input cost", "farm budget", "{u0932}{u093e}{u092d}",
    "{u0928}{u0941}{u0915}{u0938}{u093e}{u0928}",
    "{u0916}{u0947}{u0924}{u0940} {u0932}{u093e}{u0917}{u0924}",
    "{u0915}{u093f}{u0924}{u0928}{u093e} {u0915}{u092e}{u093e}",
    "{u092e}{u0941}{u0928}{u093e}{u092b}{u093e}", "{u0916}{u0930}{u094d}{u091a}",
    "{u0909}{u0924}{u094d}{u092a}{u0928}{u094d}{u0928} {u0916}{u0930}{u094d}{u091a}",
    "{u0928}{u092b}{u093e}", "{u0924}{u094b}{u091f}{u093e}", "{u0932}{u093e}{u0917}{u0924}",
    "{u0936}{u0947}{u0924}{u0940} {u0916}{u0930}{u094d}{u091a}"
  }

(***************************************************************************)
(* Intent classifier: FarmingAI.is_*                                       *)
(***************************************************************************)
\* a message that is None instead of a string
PyNone == "{None}"

\* (message or "")
OrEmpty(message) == IF message = PyNone THEN "" ELSE message

\* msg = (message or "").lower().strip()
Normalise(message) == Strip(Lower(OrEmpty(message)))

\* the \b...\b patterns of the greetings list
greeting_words == {"hello", "hi", "namaste", "hey", "hii", "help", "start"}

\* the entries of the greetings list matched with `in`
greeting_phrases ==
  {"{u0928}{u092e}{u0938}{u094d}{u0924}{u0947}",
   "{u0928}{u092e}{u0938}{u094d}{u0915}{u093e}{u0930}",
   "good morning", "good afternoon", "good evening"}

is_greeting(msg) ==
  \/ \E w \in greeting_words : WordMatch(w, msg)
  \/ AnyIn(greeting_phrases, msg)

\* a score that finds no topic
non_farming_score_zero(msg) == 0

\* non_farming_score: one point per entry of non_farming_topics found in msg
non_farming_score(msg) == Cardinality({k \in non_farming_topics : Contains(k, msg)})

\* is_farming_related that counts the non-farming topics before it looks for
\* a farming keyword
is_farming_related_reject_first(message) ==
  LET msg == Normalise(message)
  IN  IF msg = "" THEN FALSE
      ELSE IF is_greeting(msg) THEN TRUE
      ELSE IF non_farming_score(msg) >= 1 THEN FALSE
      ELSE TRUE

is_farming_related(message) ==
  LET msg == Normalise(message)
  IN  IF msg = "" THEN FALSE
      ELSE IF is_greeting(msg) THEN TRUE
      ELSE IF AnyIn(farming_keywords, msg) THEN TRUE
      ELSE IF non_farming_score(msg) >= 2 THEN FALSE
      ELSE IF non_farming_score(msg) = 1 THEN FALSE
      ELSE TRUE

is_update_query(message) ==
  LET msg == Normalise(message)
  IN  AnyIn(update_keywords, msg) /\ AnyIn(farming_keywords, msg)

is_weather_query(message) == AnyIn(weather_keywords, Normalise(message))

is_crop_recommendation_query(message) ==
  LET msg == Normalise(message)
  IN  /\ AnyIn(crop_keywords, msg)
      /\ AnyIn(weather_location_keywords \cup crop_soil_keywords, msg)

is_mandi_price_query(message) == AnyIn(price_keywords, Normalise(message))

is_scheme_query(message) == AnyIn(scheme_keywords, Normalise(message))

is_soil_query(message) == AnyIn(soil_keywords, Normalise(message))

is_economics_query(message) == AnyIn(econ_keywords, Normalise(message))

\* every predicate get_farming_response may ask of one message
Predicates(message) ==
  [farming |-> is_farming_related(message),
   crop    |-> is_crop_recommendation_query(message),
   weather |-> is_weather_query(message),
   update  |-> is_update_query(message),
   mandi   |-> is_mandi_price_query(message),
   scheme  |-> is_scheme_query(message),
   soil    |-> is_soil_query(message),
   econ    |-> is_economics_query(message)]

NoPredicates ==
  [farming |-> FALSE, crop |-> FALSE, weather |-> FALSE, update |-> FALSE,
   mandi |-> FALSE, scheme |-> FALSE, soil |-> FALSE, econ |-> FALSE]

\* farmer_services.py 1094-1099, imported at app.py 41-45: the module is part
\* of the repository and imports nothing that app.py does not import
\* unguarded, so the four service objects exist in every run
mandi_service == TRUE
scheme_service == TRUE
soil_service == TRUE
economics_service == TRUE

\* HandlerOf with the scheme test moved before the mandi test
HandlerOf_scheme_first(p) ==
  IF ~p.farming THEN "out_of_domain"
  ELSE IF p.crop THEN "crop"
  ELSE IF p.weather THEN "weather"
  ELSE IF p.update THEN "update"
  ELSE IF p.scheme /\ scheme_service THEN "scheme"
  ELSE IF p.mandi /\ mandi_service THEN "mandi"
  ELSE IF p.soil /\ soil_service THEN "soil"
  ELSE IF p.econ /\ economics_service THEN "economics"
  ELSE "general"

\* the if-chain of get_farming_response (1153-1192): which handler answers
HandlerOf(p) ==
  IF ~p.farming THEN "out_of_domain"
  ELSE IF p.crop THEN "crop"
  ELSE IF p.weather THEN "weather"
  ELSE IF p.update THEN "update"
  ELSE IF p.mandi /\ mandi_service THEN "mandi"
  ELSE IF p.scheme /\ scheme_service THEN "scheme"
  ELSE IF p.soil /\ soil_service THEN "soil"
  ELSE IF p.econ /\ economics_service THEN "economics"
  ELSE "general"

(***************************************************************************)
(* Language tables.  A text that the source writes in another script is    *)
(* stood for by a tag naming its table and language; only its identity     *)
(* matters to the program.                                                 *)
(***************************************************************************)
\* dict.get(key, default)
DictGet(d, k, default) == IF k \in DOMAIN d THEN d[k] ELSE default

language_names ==
  [en |-> "English", hi |-> "Hindi", mr |-> "Marathi", pa |-> "Punjabi",
   ml |-> "Malayalam", ta |-> "Tamil", te |-> "Telugu", kn |-> "Kannada"]

lang_name(language) == DictGet(language_names, language, "English")

\* get_out_of_domain_response: responses
out_of_domain_responses ==
  [en |-> "I apologize, but I'm specifically designed to assist with farming and agricultural questions only. [...]",
   hi |-> "<out_of_domain:hi>", mr |-> "<out_of_domain:mr>",
   pa |-> "<out_of_domain:pa>", ml |-> "<out_of_domain:ml>"]

\* get_out_of_domain_response with responses[language] in place of
\* responses.get(language, responses['en'])
get_out_of_domain_response_nodefault(language) ==
  DictGet(out_of_domain_responses, language, "")

get_out_of_domain_response(language) ==
  DictGet(out_of_domain_responses, language, out_of_domain_responses["en"])

\* get_farming_response: error_messages
connection_error_messages ==
  [en |-> "I'm sorry, I'm having trouble connecting right now. Please try again in a moment.",
   hi |-> "<connection_error:hi>", mr |-> "<connection_error:mr>",
   pa |-> "<connection_error:pa>", ml |-> "<connection_error:ml>",
   ta |-> "<connection_error:ta>", te |-> "<connection_error:te>",
   kn |-> "<connection_error:kn>"]

\* _get_weather_response: error_messages
weather_error_messages ==
  [en |-> "I apologize, but I cannot access weather information right now. [...]",
   hi |-> "<weather_error:hi>", mr |-> "<weather_error:mr>"]

\* _get_crop_recommendation_response: error_messages
crop_error_messages ==
  [en |-> "I apologize, but I'm having trouble generating crop recommendations right now. [...]",
   hi |-> "<crop_error:hi>", mr |-> "<crop_error:mr>"]

\* _get_update_response: error_messages
update_error_messages ==
  [en |-> "I apologize, but I'm having trouble fetching the latest updates right now. Please try again in a moment.",
   hi |-> "<update_error:hi>", mr |-> "<update_error:mr>",
   pa |-> "<update_error:pa>", ml |-> "<update_error:ml>"]

\* every apology text any handler can return
ApologyTexts ==
  {connection_error_messages[l] : l \in DOMAIN connection_error_messages}
  \cup {weather_error_messages[l] : l \in DOMAIN weather_error_messages}
  \cup {crop_error_messages[l] : l \in DOMAIN crop_error_messages}
  \cup {update_error_messages[l] : l \in DOMAIN update_error_messages}

(***************************************************************************)
(* The generation service as the program sees it                           *)
(***************************************************************************)
\* gemini_model.generate_content(prompt) as one call finds it: client tells
\* whether gemini_model is not None; the call raises, or gives a response
\* whose .text is the string below ("" stands for a missing or empty text)
NativeOutcomes ==
  {[client |-> TRUE, raises |-> TRUE, text |-> ""]}
  \cup {[client |-> TRUE, raises |-> FALSE, text |-> t] :
          t \in {"", " \n", "Use neem oil spray."}}

\* gemini_model is None
NoClient == [client |-> FALSE, raises |-> FALSE, text |-> ""]

\* requests.post + parsing in call_gemini_rest as one call finds it: key tells
\* whether GEMINI_API_KEY is set; the call raises (non-200, network,
\* unparsable payload), or finds the candidate text below in the payload
RestOutcomes ==
  {[key |-> TRUE, raises |-> TRUE, text |-> ""]}
  \cup {[key |-> TRUE, raises |-> FALSE, text |-> t] :
          t \in {" ", "Apply urea in two splits."}}

\* GEMINI_API_KEY is empty: call_gemini_rest raises at 367-368
NoKey == [key |-> FALSE, raises |-> TRUE, text |-> ""]

\* call_gemini_rest (363-422)
call_gemini_rest(o) ==
  IF o.raises THEN [raised |-> TRUE, text |-> "", error |-> "<REST exception>"]
  ELSE [raised |-> FALSE, text |-> Strip(o.text), error |-> ""]

\* a transport call as the generation service sees it
Call(path, prompt) == [path |-> path, prompt |-> prompt]

\* what a handler or the gateway hands back
Returned(text, calls) ==
  [type |-> "return", none |-> FALSE, text |-> text, error |-> "", calls |-> calls]
ReturnedNone(calls) ==
  [type |-> "return", none |-> TRUE, text |-> "", error |-> "", calls |-> calls]
Raised(error, calls) ==
  [type |-> "raise", none |-> FALSE, text |-> "", error |-> error, calls |-> calls]

\* is_custom_prompt without the marker of the disease prompt that carries no
\* question
is_custom_prompt_five_markers(message) ==
  \/ Contains("You are an expert", message)
  \/ Contains("Here is REAL", message)
  \/ Contains("Real data", message)
  \/ Contains("Soil analysis", message)
  \/ Contains("disease detection", message)

\* is_custom_prompt (1425-1427)
is_custom_prompt(message) ==
  \/ Contains("You are an expert", message)
  \/ Contains("Here is REAL", message)
  \/ Contains("Real data", message)
  \/ Contains("Soil analysis", message)
  \/ Contains("disease detection", message)
  \/ Contains("Disease detected", message)

\* farming_prompt (1429-1456)
farming_prompt(message, language) ==
  IF is_custom_prompt(message) THEN message
  ELSE "You are \"Krishi Mitra\" [...] CRITICAL: Write your ENTIRE response in "
       \o lang_name(language) \o " language ONLY. [...] Farmer's question: "
       \o message \o " Provide expert farming advice in " \o lang_name(language) \o ":"

\* native_error after the native attempt (1459-1471)
native_error(n) ==
  IF ~n.client THEN "None"
  ELSE IF n.raises THEN "<native exception>"
  ELSE "Response had no text content"

\* _get_gemini_response that tries the native client a second time before it
\* goes to the REST path
_get_gemini_response_retry(message, language, n, r) ==
  LET prompt == farming_prompt(message, language)
      nativeCalls == IF n.client
                     THEN <<Call("native", prompt), Call("native", prompt)>> ELSE <<>>
      allCalls == nativeCalls \o <<Call("rest", prompt)>>
      rest == call_gemini_rest(r)
  IN  IF n.client /\ ~n.raises /\ n.text # ""
      THEN Returned(Strip(n.text), <<Call("native", prompt)>>)
      ELSE IF r.key
      THEN IF rest.raised
           THEN Raised("Both Gemini APIs failed. Native: " \o native_error(n)
                       \o ", REST: " \o rest.error, allCalls)
           ELSE IF rest.text # ""
           THEN Returned(rest.text, allCalls)
           ELSE Raised("Gemini API is not available. Native error: "
                       \o native_error(n), allCalls)
      ELSE Raised("Gemini API is not available. Native error: "
                  \o native_error(n), nativeCalls)

\* _get_gemini_response (1407-1486) with the outcome n of the native call
\* and r of the REST call, should the code make them
_get_gemini_response(message, language, n, r) ==
  LET prompt == farming_prompt(message, language)
      nativeCalls == IF n.client THEN <<Call("native", prompt)>> ELSE <<>>
      allCalls == nativeCalls \o <<Call("rest", prompt)>>
      rest == call_gemini_rest(r)
  IN  IF n.client /\ ~n.raises /\ n.text # ""
      THEN Returned(Strip(n.text), nativeCalls)
      ELSE IF r.key
      THEN IF rest.raised
           THEN Raised("Both Gemini APIs failed. Native: " \o native_error(n)
                       \o ", REST: " \o rest.error, allCalls)
           ELSE IF rest.text # ""
           THEN Returned(rest.text, allCalls)
           ELSE Raised("Gemini API is not available. Native error: "
                       \o native_error(n), allCalls)
      ELSE Raised("Gemini API is not available. Native error: "
                  \o native_error(n), nativeCalls)
(***************************************************************************)
(* Handlers of FarmingAI                                                   *)
(***************************************************************************)
\* _extract_location: indian_locations, in dict order
indian_locations ==
  <<
    <<"delhi", "Delhi,IN">>, <<"mumbai", "Mumbai,IN">>, <<"pune", "Pune,IN">>,
    <<"bangalore", "Bangalore,IN">>, <<"hyderabad", "Hyderabad,IN">>, <<"chennai", "Chennai,IN">>,
    <<"kolkata", "Kolkata,IN">>, <<"ahmedabad", "Ahmedabad,IN">>, <<"jaipur", "Jaipur,IN">>,
    <<"lucknow", "Lucknow,IN">>, <<"chandigarh", "Chandigarh,IN">>, <<"bhopal", "Bhopal,IN">>,
    <<"indore", "Indore,IN">>, <<"nagpur", "Nagpur,IN">>, <<"patna", "Patna,IN">>,
    <<"ludhiana", "Ludhiana,IN">>, <<"amritsar", "Amritsar,IN">>, <<"punjab", "Punjab,IN">>,
    <<"haryana", "Haryana,IN">>, <<"maharashtra", "Maharashtra,IN">>, <<"gujarat", "Gujarat,IN">>,
    <<"rajasthan", "Rajasthan,IN">>, <<"karnataka", "Karnataka,IN">>, <<"tamil nadu", "Tamil Nadu,IN">>,
    <<"kerala", "Kerala,IN">>, <<"west bengal", "West Bengal,IN">>, <<"uttar pradesh", "Uttar Pradesh,IN">>,
    <<"madhya pradesh", "Madhya Pradesh,IN">>
  >>

RECURSIVE ExtractLocationFrom(_, _)
ExtractLocationFrom(msg, i) ==
  IF i > Len(indian_locations) THEN "Delhi,IN"
  ELSE IF Contains(indian_locations[i][1], msg) THEN indian_locations[i][2]
  ELSE ExtractLocationFrom(msg, i + 1)

_extract_location(message) == ExtractLocationFrom(Lower(message), 1)

\* _get_weather_data(location): None ("none"), a complete payload ("ok"), or
\* a 200 payload without the fields the handlers index ("malformed")
WeatherOutcomes == {"none", "ok", "malformed"}

\* _format_weather_response that never gives a text
_format_weather_response_none(w, location, language) ==
  [none |-> TRUE, text |-> ""]

\* _format_weather_response (787-884): None on missing data or on any
\* exception while indexing it, else the text for hi, mr or English
_format_weather_response(w, location, language) ==
  IF w # "ok" THEN [none |-> TRUE, text |-> ""]
  ELSE [none |-> FALSE,
        text |-> IF language = "hi" THEN "<weather_update:hi> " \o location
                 ELSE IF language = "mr" THEN "<weather_update:mr> " \o location
                 ELSE "Weather Update for " \o location \o " [...]"]

\* what one prompt's attempt inside a handler gives: done with a text, or not
Got(text, calls) == [done |-> TRUE, text |-> text, calls |-> calls]
NotGot(calls) == [done |-> FALSE, text |-> "", calls |-> calls]

\* native call and REST call each inside its own try
\* (_get_crop_recommendation_response 1019-1040, _get_update_response 1372-1391)
attempt_each_guarded(prompt, n, r) ==
  LET nativeCalls == IF n.client THEN <<Call("native", prompt)>> ELSE <<>>
      allCalls == nativeCalls \o <<Call("rest", prompt)>>
      rest == call_gemini_rest(r)
  IN  IF n.client /\ ~n.raises /\ n.text # ""
      THEN Got(Strip(n.text), nativeCalls)
      ELSE IF r.key
      THEN IF rest.raised THEN NotGot(allCalls) ELSE Got(rest.text, allCalls)
      ELSE NotGot(nativeCalls)

\* attempt_one_try with a try of its own around the native call
attempt_one_try_guarded(prompt, n, r) ==
  LET nativeCalls == IF n.client THEN <<Call("native", prompt)>> ELSE <<>>
      allCalls == nativeCalls \o <<Call("rest", prompt)>>
      rest == call_gemini_rest(r)
  IN  IF n.client /\ ~n.raises /\ n.text # ""
      THEN Got(Strip(n.text), nativeCalls)
      ELSE IF r.key
      THEN IF rest.raised THEN NotGot(allCalls) ELSE Got(rest.text, allCalls)
      ELSE NotGot(nativeCalls)

\* native call and REST call inside one try: an exception of the native call
\* leaves the try before the REST call
\* (_get_weather_response 922-932, _get_crop_recommendation_response 1064-1074)
attempt_one_try(prompt, n, r) ==
  LET nativeCalls == IF n.client THEN <<Call("native", prompt)>> ELSE <<>>
      allCalls == nativeCalls \o <<Call("rest", prompt)>>
      rest == call_gemini_rest(r)
  IN  IF n.client /\ n.raises THEN NotGot(nativeCalls)
      ELSE IF n.client /\ n.text # "" THEN Got(Strip(n.text), nativeCalls)
      ELSE IF r.key
      THEN IF rest.raised THEN NotGot(allCalls) ELSE Got(rest.text, allCalls)
      ELSE NotGot(nativeCalls)

\* the knowledge providers a handler calls before it composes its prompt:
\* _get_weather_data (893, 951), mandi_service (1220-1225), scheme_service
\* (1249), soil_service (1277), economics_service (1309-1313)
ProvidersOf(handler) ==
  CASE handler = "crop" -> <<"weather">>
    [] handler = "weather" -> <<"weather">>
    [] handler = "mandi" -> <<"mandi">>
    [] handler = "scheme" -> <<"scheme">>
    [] handler = "soil" -> <<"soil">>
    [] handler = "economics" -> <<"economics">>
    [] OTHER -> <<>>

\* what a call gives back: the handler that ran, the value or exception, the
\* transport calls in order, the prompts it tried and the providers it called
Out(handler, type, none, text, error, calls, attempts) ==
  [handler |-> handler, type |-> type, none |-> none, text |-> text,
   error |-> error, calls |-> calls, attempts |-> attempts,
   providers |-> ProvidersOf(handler)]

NoResult == Out("", "pending", FALSE, "", "", <<>>, <<>>)

weather_prompt(message, language) ==
  "You are an agricultural advisor. The farmer is asking about weather: \""
  \o message \o "\" [...] Respond in " \o lang_name(language) \o " [...]"

\* _get_weather_response (886-940)
_get_weather_response(message, language, w, n, r) ==
  LET location == _extract_location(message)
      formatted == _format_weather_response(w, location, language)
      a == attempt_one_try(weather_prompt(message, language), n, r)
  IN  IF w # "none" /\ ~formatted.none /\ formatted.text # ""
      THEN Out("weather", "return", FALSE, formatted.text, "", <<>>, <<>>)
      ELSE IF a.done
      THEN Out("weather", "return", FALSE, a.text, "", a.calls, <<"weather_prompt">>)
      ELSE Out("weather", "return", FALSE,
               DictGet(weather_error_messages, language, weather_error_messages["en"]),
               "", a.calls, <<"weather_prompt">>)

crop_prompt(message, language) ==
  "You are an expert agricultural advisor providing crop recommendations based on current weather and location. [...] **Farmer's Question**: \""
  \o message \o "\" [...] Provide detailed crop recommendations in "
  \o lang_name(language) \o ":"

fallback_prompt(message, language) ==
  "You are an agricultural advisor. The farmer is asking: \"" \o message
  \o "\" [...] Write ENTIRE response in " \o lang_name(language)
  \o " language ONLY. Be specific and practical."

\* _get_crop_recommendation_response (942-1082); n1, r1 are the outcomes of
\* the first prompt tried, n2, r2 of the second
_get_crop_recommendation_response(message, language, w, n1, r1, n2, r2) ==
  LET first == attempt_each_guarded(crop_prompt(message, language), n1, r1)
      second == attempt_one_try(fallback_prompt(message, language), n2, r2)
      only == attempt_one_try(fallback_prompt(message, language), n1, r1)
      apology == DictGet(crop_error_messages, language, crop_error_messages["en"])
  IN  IF w = "malformed"
      THEN Out("crop", "raise", FALSE, "", "KeyError", <<>>, <<>>)
      ELSE IF w = "ok"
      THEN IF first.done
           THEN Out("crop", "return", FALSE, first.text, "", first.calls, <<"crop_prompt">>)
           ELSE IF second.done
           THEN Out("crop", "return", FALSE, second.text, "",
                    first.calls \o second.calls, <<"crop_prompt", "fallback_prompt">>)
           ELSE Out("crop", "return", FALSE, apology, "",
                    first.calls \o second.calls, <<"crop_prompt", "fallback_prompt">>)
      ELSE IF only.done
      THEN Out("crop", "return", FALSE, only.text, "", only.calls, <<"fallback_prompt">>)
      ELSE Out("crop", "return", FALSE, apology, "", only.calls, <<"fallback_prompt">>)

update_prompt(message, language) ==
  "You are an expert agricultural advisor providing current updates and news about farming. The farmer is asking: \""
  \o message \o "\" [...] Provide the update/news in " \o lang_name(language)
  \o " (remember: ONLY use " \o lang_name(language) \o " language):"

\* _get_update_response (1335-1405)
_get_update_response(message, language, n, r) ==
  LET a == attempt_each_guarded(update_prompt(message, language), n, r)
  IN  IF a.done
      THEN Out("update", "return", FALSE, a.text, "", a.calls, <<"update_prompt">>)
      ELSE Out("update", "return", FALSE,
               DictGet(update_error_messages, language, update_error_messages["en"]),
               "", a.calls, <<"update_prompt">>)

\* enriched with the connection apology in its except clause
enriched_apology(handler, tag, prompt, data, language, n, r) ==
  LET g == _get_gemini_response(prompt, language, n, r)
  IN  IF g.type = "raise"
      THEN Out(handler, "return", FALSE,
               DictGet(connection_error_messages, language, connection_error_messages["en"]),
               "", g.calls, <<tag>>)
      ELSE Out(handler, "return", FALSE, g.text, "", g.calls, <<tag>>)

\* a handler that returns self._get_gemini_response(prompt, language) inside
\* try, and `data` in its bare except (1242-1245, 1270-1273, 1295-1298, 1330-1333)
enriched(handler, tag, prompt, data, language, n, r) ==
  LET g == _get_gemini_response(prompt, language, n, r)
  IN  IF g.type = "raise"
      THEN Out(handler, "return", FALSE, data, "", g.calls, <<tag>>)
      ELSE Out(handler, "return", FALSE, g.text, "", g.calls, <<tag>>)

\* MandiPriceService.COMMODITY_MAP: each key with its lower-cased 'en' name,
\* in dict order (the names in other scripts match messages in those scripts)
COMMODITY_MAP ==
  << <<"wheat", "wheat">>, <<"rice", "rice">>, <<"onion", "onion">>,
     <<"potato", "potato">>, <<"tomato", "tomato">>, <<"soybean", "soybean">>,
     <<"cotton", "cotton">>, <<"sugarcane", "sugarcane">>, <<"mustard", "mustard">>,
     <<"chana", "chickpea">>, <<"maize", "maize">>, <<"bajra", "pearl millet">>,
     <<"jowar", "sorghum">>, <<"turmeric", "turmeric">>, <<"chilli", "red chilli">>,
     <<"garlic", "garlic">>, <<"banana", "banana">>, <<"mango", "mango">> >>

RECURSIVE DetectCommodityFrom(_, _)
DetectCommodityFrom(msg, i) ==
  IF i > Len(COMMODITY_MAP) THEN ""
  ELSE IF Contains(COMMODITY_MAP[i][1], msg) \/ Contains(COMMODITY_MAP[i][2], msg)
  THEN COMMODITY_MAP[i][1]
  ELSE DetectCommodityFrom(msg, i + 1)

\* MandiPriceService.detect_commodity_in_message; "" stands for None
detect_commodity_in_message(message) == DetectCommodityFrom(Lower(message), 1)

\* data_context of _get_mandi_enriched_response (1218-1225)
mandi_data_context(message) ==
  LET commodity == detect_commodity_in_message(message)
  IN  IF commodity # ""
      THEN "Real data for " \o commodity \o ": <get_mandi_prices json>"
      ELSE "MSP Data: <get_msp_data json>"

mandi_prompt(message, language) ==
  "You are an expert agricultural market advisor. The farmer asks: \"" \o message
  \o "\" Here is REAL market data to use in your response: "
  \o mandi_data_context(message) \o " [...] Write ENTIRELY in "
  \o lang_name(language) \o ". Keep it concise and actionable."

\* _get_mandi_enriched_response (1216-1245)
_get_mandi_enriched_response(message, language, n, r) ==
  enriched("mandi", "mandi_prompt", mandi_prompt(message, language),
           mandi_data_context(message), language, n, r)

\* "\n".join(scheme_summary) over the first five of GovernmentSchemeService.SCHEMES
scheme_summary == "<name: benefit of each of the first five schemes>"

scheme_prompt(message, language) ==
  "You are an expert agricultural advisor helping farmers with government schemes. The farmer asks: \""
  \o message \o "\" Here are relevant government schemes data: " \o scheme_summary
  \o " [...] Write ENTIRELY in " \o lang_name(language) \o ". Keep it practical."

\* _get_scheme_enriched_response (1247-1273)
_get_scheme_enriched_response(message, language, n, r) ==
  enriched("scheme", "scheme_prompt", scheme_prompt(message, language),
           scheme_summary, language, n, r)

\* json.dumps(soil_service.analyze_soil_symptoms(message))
soil_analysis_json == "<analyze_soil_symptoms json>"

soil_prompt(message, language) ==
  "You are an expert soil scientist and agricultural advisor. The farmer asks: \""
  \o message \o "\" Soil analysis data: " \o soil_analysis_json
  \o " [...] Write ENTIRELY in " \o lang_name(language) \o ". Be specific with quantities."

\* _get_soil_enriched_response (1275-1298)
_get_soil_enriched_response(message, language, n, r) ==
  enriched("soil", "soil_prompt", soil_prompt(message, language),
           soil_analysis_json, language, n, r)

\* the crop list of _get_economics_enriched_response (1303), in order
economics_crops ==
  <<"wheat", "rice", "cotton", "soybean", "potato", "onion", "tomato", "maize",
    "sugarcane", "mustard", "chana">>

RECURSIVE EconomicsCropFrom(_, _)
EconomicsCropFrom(msg, i) ==
  IF i > Len(economics_crops) THEN ""
  ELSE IF Contains(economics_crops[i], msg) THEN economics_crops[i]
  ELSE EconomicsCropFrom(msg, i + 1)

\* data_context of _get_economics_enriched_response (1302-1314)
economics_data_context(message) ==
  LET crop == EconomicsCropFrom(Lower(message), 1)
  IN  IF crop # ""
      THEN "Economics for " \o crop \o " (1 hectare): <calculate_economics json>"
      ELSE "Crop comparison: Best=<best_crop>, ROI=<best_roi>%"

economics_prompt(message, language) ==
  "You are an expert farm economics advisor. The farmer asks: \"" \o message
  \o "\" Real economics data: " \o economics_data_context(message)
  \o " [...] Write ENTIRELY in " \o lang_name(language) \o ". Use {u20b9} for currency."

\* _get_economics_enriched_response (1300-1333)
_get_economics_enriched_response(message, language, n, r) ==
  enriched("economics", "economics_prompt", economics_prompt(message, language),
           economics_data_context(message), language, n, r)

\* general_farming_response without its except clause
general_farming_response_raise(message, language, n, r) ==
  LET g == _get_gemini_response(message, language, n, r)
  IN  IF g.type = "raise"
      THEN Out("general", "raise", FALSE, "", g.error, g.calls, <<"farming_prompt">>)
      ELSE IF g.text # "" /\ Strip(g.text) # ""
      THEN Out("general", "return", FALSE, g.text, "", g.calls, <<"farming_prompt">>)
      ELSE Out("general", "return", TRUE, "", "", g.calls, <<"farming_prompt">>)

\* the GeneralFarming tail of get_farming_response (1194-1212): a returned
\* text that is empty leaves the try without a return statement
general_farming_response(message, language, n, r) ==
  LET g == _get_gemini_response(message, language, n, r)
  IN  IF g.type = "raise"
      THEN Out("general", "return", FALSE,
               DictGet(connection_error_messages, language, connection_error_messages["en"]),
               "", g.calls, <<"farming_prompt">>)
      ELSE IF g.text # "" /\ Strip(g.text) # ""
      THEN Out("general", "return", FALSE, g.text, "", g.calls, <<"farming_prompt">>)
      ELSE Out("general", "return", TRUE, "", "", g.calls, <<"farming_prompt">>)

\* the outcomes of the external calls one request may make
Env(w, n1, r1, n2, r2) == [w |-> w, n1 |-> n1, r1 |-> r1, n2 |-> n2, r2 |-> r2]

\* get_farming_response (1145-1212) for a message whose predicates are p
get_farming_response(p, message, language, e) ==
  CASE HandlerOf(p) = "out_of_domain" ->
         Out("out_of_domain", "return", FALSE, get_out_of_domain_response(language),
             "", <<>>, <<>>)
    [] HandlerOf(p) = "crop" ->
         _get_crop_recommendation_response(message, language, e.w, e.n1, e.r1, e.n2, e.r2)
    [] HandlerOf(p) = "weather" ->
         _get_weather_response(message, language, e.w, e.n1, e.r1)
    [] HandlerOf(p) = "update" -> _get_update_response(message, language, e.n1, e.r1)
    [] HandlerOf(p) = "mandi" -> _get_mandi_enriched_response(message, language, e.n1, e.r1)
    [] HandlerOf(p) = "scheme" -> _get_scheme_enriched_response(message, language, e.n1, e.r1)
    [] HandlerOf(p) = "soil" -> _get_soil_enriched_response(message, language, e.n1, e.r1)
    [] HandlerOf(p) = "economics" ->
         _get_economics_enriched_response(message, language, e.n1, e.r1)
    [] OTHER -> general_farming_response(message, language, e.n1, e.r1)
(***************************************************************************)
(* One call of get_farming_response as a state machine                     *)
(***************************************************************************)
\* words the requests are built from: each classifier list is met alone and
\* together with the others
Words ==
  {"crop", "grow", "soil", "rain", "forecast", "latest", "mandi", "onion",
   "subsidy", "loan", "npk", "profit", "roi", "cricket", "movie", "hello", "advice"}

Messages ==
  Words
  \cup {a \o " " \o b : a, b \in Words}
  \cup {"what crop should I grow in this soil", "mandi price of onion",
        "What is the MSP of wheat in Punjab", "namaste", "", "   "}

\* language codes a caller may pass: with an entry in every table, with an
\* entry in some tables only, and with no entry at all
Langs == {"en", "hi", "ta", "xx"}

\* line 304: the native client is built only when the key is set
ConfigOK == gemini_model => GEMINI_API_KEY

InitConfig ==
  /\ gemini_model \in BOOLEAN
  /\ GEMINI_API_KEY \in BOOLEAN
  /\ ConfigOK

\* what a call of the native client, and of the REST endpoint, can find in
\* this process
NativePath == IF gemini_model THEN NativeOutcomes ELSE {NoClient}
RestPath == IF GEMINI_API_KEY THEN RestOutcomes ELSE {NoKey}

\* the outcomes of the external calls are not known before a call is made
NoEnv == Env("none", NoClient, NoKey, NoClient, NoKey)

NoRequest == [message |-> "", language |-> "en"]

InitCall ==
  /\ pc = "idle"
  /\ request = NoRequest
  /\ preds = NoPredicates
  /\ env = NoEnv
  /\ result = NoResult

(***************************************************************************)
(* The HTTP endpoints: /api/chat and the session endpoints                 *)
(***************************************************************************)
\* line 220: the size query divides the summed lengths by 1024.0 twice
MB == 1048576

\* line 200
SESSION_SIZE_LIMIT_MB == 16

Users == {"u1", "u2"}
SessionIds == {"s1", "s2"}
Clients == {"c1"}

\* a key that the Flask session does not hold
Absent == ""

\* most rows the Chats table holds in the runs of Spec, and in those of SpecTurns
MaxRows == 3
MaxTurns == 18

\* characters of one stored turn, LENGTH(UserMessage) + LENGTH(AIResponse), in
\* the runs of Spec: after the words the classifier sees, a message carries as
\* many further characters, none of them part of a keyword, as make the turn
\* this long
TurnChars == 8 * MB

RECURSIVE SumOver(_, _)
SumOver(f, S) ==
  IF S = {} THEN 0
  ELSE LET x == CHOOSE y \in S : TRUE IN f[x] + SumOver(f, S \ {x})

\* SUM(LENGTH(UserMessage) + LENGTH(AIResponse)) ... WHERE SessionID = %s
\* (218-222): the rows of every user under that id; a row whose AIResponse is
\* NULL adds nothing to the sum
StoredChars(session_id) == SumOver(chats[session_id], Users)

\* every row of the table
TotalChars == SumOver([s \in SessionIds |-> StoredChars(s)], SessionIds)

\* calculate_session_size that reports the ceiling when the size query fails
calculate_session_size_fail_closed(session_id, db) ==
  IF db THEN StoredChars(session_id) ELSE SESSION_SIZE_LIMIT_MB * MB

\* calculate_session_size (216-230); db is FALSE when execute_query gives None
\* (no connection, SQL error).  The float it returns is current_size / MB.
calculate_session_size(session_id, db) ==
  IF db /\ StoredChars(session_id) # 0 THEN StoredChars(session_id) ELSE 0

\* validate_session_size with <= in place of <
validate_session_size_inclusive(session_id, db) ==
  LET current_size == calculate_session_size(session_id, db)
  IN  [is_valid |-> current_size <= SESSION_SIZE_LIMIT_MB * MB,
       current_size |-> current_size]

\* validate_session_size (232-236)
validate_session_size(session_id, db) ==
  LET current_size == calculate_session_size(session_id, db)
  IN  [is_valid |-> current_size < SESSION_SIZE_LIMIT_MB * MB,
       current_size |-> current_size]

\* create_new_session (202-204): uuid4 gives an id that nothing holds yet
FreshIds ==
  {s \in SessionIds :
     /\ StoredChars(s) = 0
     /\ s \notin reached
     /\ \A c \in Clients : cookie[c].active_chat_session # s}

\* language_names of chat (1542-1551)
chat_language_names ==
  [en |-> "English", hi |-> "Hindi (<hi>)", mr |-> "Marathi (<mr>)",
   pa |-> "Punjabi (<pa>)", ml |-> "Malayalam (<ml>)", ta |-> "Tamil (<ta>)",
   te |-> "Telugu (<te>)", kn |-> "Kannada (<kn>)"]

\* enhanced_message of chat (1555-1605)
enhanced_message(user_query, disease_names, image_count, user_language) ==
  LET lang == DictGet(chat_language_names, user_language, "English")
  IN  IF user_query # ""
      THEN "You are an expert agricultural advisor. A farmer uploaded " \o image_count
           \o " plant image(s) and our disease detection system identified: "
           \o disease_names \o " The farmer asks: \"" \o user_query
           \o "\" Provide a comprehensive response in " \o lang
           \o " ONLY with this exact structure: [...] IMPORTANT: Write ONLY in "
           \o lang \o ". Be specific with product names and quantities. Make it actionable."
      ELSE "A farmer uploaded plant images. Disease detected: " \o disease_names
           \o " Provide a concise response in " \o lang
           \o " with: [...] Keep it brief but actionable. Write ONLY in " \o lang \o "."

\* a direct call of _get_gemini_response, as chat makes it at 1611
gateway_response(message, language, n, r) ==
  LET g == _get_gemini_response(message, language, n, r)
  IN  Out("gateway", g.type, g.none, g.text, g.error, g.calls, <<"farming_prompt">>)

\* the JSON bodies of the chat requests
Body(message, userQuery, detectedDiseases) ==
  [message |-> message, userQuery |-> userQuery, detectedDiseases |-> detectedDiseases]

ChatBodies ==
  {Body(m, "", "") :
     m \in {"advice", "cricket movie", "mandi price of onion", "", "  "}}
  \cup {Body("Analyze these images", "", "Tomato Late Blight"),
        Body("how do I treat it", "how do I treat it ", "Tomato Late Blight")}

\* get_user_language (458-468) gives a code of convert_language_code
ChatLangs == {"en", "hi"}

NoServing ==
  [active |-> FALSE, client |-> "", user_email |-> "", session |-> "",
   message |-> "", language |-> "en", diseases |-> FALSE,
   stored |-> 0, db |-> TRUE]

NoResponse == [type |-> "", none |-> FALSE, text |-> ""]

\* a response that always carries status 200
Reply_always_ok(op, status, error, session, stored, db, response, persisted) ==
  [op |-> op, status |-> 200, error |-> error, session |-> session,
   stored |-> stored, db |-> db, response |-> response, persisted |-> persisted]

\* an HTTP response: which endpoint sent it, its status, its error kind, the
\* session it was about with the characters stored under it before any write
\* and whether the size query worked, the body's response, and whether a
\* row was inserted
Reply(op, status, error, session, stored, db, response, persisted) ==
  [op |-> op, status |-> status, error |-> error, session |-> session,
   stored |-> stored, db |-> db, response |-> response, persisted |-> persisted]

NoReply == Reply("", 0, "", "", 0, TRUE, NoResponse, FALSE)

InitHttp ==
  /\ chats = [s \in SessionIds |-> [u \in Users |-> 0]]
  /\ cookie = [c \in Clients |-> [user_email |-> Absent, active_chat_session |-> Absent]]
  /\ serving = NoServing
  /\ reached = {}
  /\ last = NoReply

\* no classification has been made
InitHist == classified = <<>>

\* most chat requests the server works on at the same time
MaxInFlight == 3
Threads == 1..MaxInFlight

\* a worker thread that serves no chat request
NoFlight ==
  [at |-> "free", user_email |-> "", session |-> "", message |-> "",
   language |-> "en", diseases |-> FALSE, db |-> TRUE, response |-> NoResponse]

InitRace ==
  /\ inflight = [t \in Threads |-> NoFlight]
  /\ late = [s \in SessionIds |-> 0]

\* the locations and the mandi queries the callers ask about
Locations == {"Delhi,IN", "Pune,IN"}
MandiQueries ==
  {[commodity |-> "onion", state |-> "", district |-> PyNone],
   [commodity |-> "onion", state |-> "punjab", district |-> PyNone]}

\* f"{commodity}_{state}_{district}" (farmer_services.py 110), where a
\* district of None prints as "None"
cache_key(commodity, state, district) ==
  commodity \o "_" \o state \o "_" \o (IF district = PyNone THEN "None" ELSE district)

MandiKeys == {cache_key(q.commodity, q.state, q.district) : q \in MandiQueries}

\* a key a cache holds nothing under
NoEntry == [held |-> FALSE, data |-> [kind |-> "", fetched |-> 0], timestamp |-> 0]

\* no call of a cached fetch has been made
NoRead == [cache |-> "", key |-> "", at |-> 0, hit |-> FALSE, none |-> TRUE,
           data |-> [kind |-> "", fetched |-> 0]]

\* the process has started: the clock is at 0 and both caches are empty
EmptyCaches ==
  /\ now = 0
  /\ weather_cache = [l \in Locations |-> NoEntry]
  /\ mandi_cache = [k \in MandiKeys |-> NoEntry]
  /\ cache_read = NoRead

\* a process with both data keys configured
InitCache ==
  /\ EmptyCaches
  /\ OPENWEATHER_API_KEY = TRUE
  /\ mandi_api_key = TRUE

\* otp_store holds nothing under an email
NoOtp ==
  [held |-> FALSE, otp |-> "", expiry |-> 0, verified |-> FALSE, attempts |-> 0,
   token |-> 0, sent_at |-> 0, reset_token |-> 0]

\* PasswordHash of an account nobody has reset yet
InitialHash == "<bcrypt:registered>"

\* a response of the password-reset endpoints: the endpoint and the status;
\* for a request that passed the checks of its endpoint also the email, the
\* OTP or reset token it supplied (for send_otp the demo_otp of the body) and
\* the token or reset token in the body of the response (0: none)
OtpReply(op, status, email, given, token) ==
  [op |-> op, status |-> status, email |-> email, given |-> given, token |-> token]

InitOtp ==
  /\ otp_store = [u \in Users |-> NoOtp]
  /\ passwords = [u \in Users |-> InitialHash]
  /\ minted = 0
  /\ otp_reply = OtpReply("", 0, "", "", 0)
  /\ issued = [u \in Users |-> <<>>]
  /\ granted = [u \in Users |-> 0]
  /\ spent = {}

InitOrch == InitConfig /\ InitCall /\ InitHttp /\ InitHist

Init == InitOrch /\ InitRace /\ InitCache /\ InitOtp

(***************************************************************************)
(* Calls of FarmingAI made directly (voice chat, image analysis)           *)
(***************************************************************************)
\* a caller passes message and language
Receive(m, l) ==
  /\ pc = "idle"
  /\ ~serving.active
  /\ request' = [message |-> m, language |-> l]
  /\ pc' = "received"
  /\ UNCHANGED <<preds, env, result, cfgVars, extVars, histVars, httpVars>>

\* the is_* predicates of the message
Classify ==
  /\ pc = "received"
  /\ preds' = Predicates(request.message)
  /\ pc' = "classified"
  /\ UNCHANGED <<request, env, result, cfgVars, extVars, histVars, httpVars>>

\* the call's frame after the handler ran to its end with result r
Finish(r, e) ==
  /\ result' = r
  /\ env' = e
  /\ pc' = "done"
  /\ UNCHANGED <<request, preds, cfgVars, extVars, histVars, httpVars>>

\* get_farming_response under the outcomes e of its external calls
Respond(e) ==
  Finish(get_farming_response(preds, request.message, request.language, e), e)

AnswerOutOfDomain ==
  /\ pc = "classified"
  /\ HandlerOf(preds) = "out_of_domain"
  /\ Respond(Env("none", NoClient, NoKey, NoClient, NoKey))

AnswerCrop ==
  /\ pc = "classified"
  /\ HandlerOf(preds) = "crop"
  /\ \E w \in WeatherOutcomes, n1, n2 \in NativePath, r1, r2 \in RestPath :
       Respond(Env(w, n1, r1, n2, r2))

AnswerWeather ==
  /\ pc = "classified"
  /\ HandlerOf(preds) = "weather"
  /\ \E w \in WeatherOutcomes, n \in NativePath, r \in RestPath :
       Respond(Env(w, n, r, NoClient, NoKey))

AnswerUpdate ==
  /\ pc = "classified"
  /\ HandlerOf(preds) = "update"
  /\ \E n \in NativePath, r \in RestPath :
       Respond(Env("none", n, r, NoClient, NoKey))

AnswerMandi ==
  /\ pc = "classified"
  /\ HandlerOf(preds) = "mandi"
  /\ \E n \in NativePath, r \in RestPath :
       Respond(Env("none", n, r, NoClient, NoKey))

AnswerScheme ==
  /\ pc = "classified"
  /\ HandlerOf(preds) = "scheme"
  /\ \E n \in NativePath, r \in RestPath :
       Respond(Env("none", n, r, NoClient, NoKey))

AnswerSoil ==
  /\ pc = "classified"
  /\ HandlerOf(preds) = "soil"
  /\ \E n \in NativePath, r \in RestPath :
       Respond(Env("none", n, r, NoClient, NoKey))

AnswerEconomics ==
  /\ pc = "classified"
  /\ HandlerOf(preds) = "economics"
  /\ \E n \in NativePath, r \in RestPath :
       Respond(Env("none", n, r, NoClient, NoKey))

AnswerGeneral ==
  /\ pc = "classified"
  /\ HandlerOf(preds) = "general"
  /\ \E n \in NativePath, r \in RestPath :
       Respond(Env("none", n, r, NoClient, NoKey))

\* prompt of upload_document (3031-3044) over the first 2000 characters of the
\* extracted text
document_analysis_prompt(text_preview, language) ==
  "You are an expert agricultural advisor analyzing a farming document. Document Content: "
  \o text_preview \o " Analyze this farming document and provide: [...] Respond in "
  \o lang_name(language) \o " in a clear, helpful manner."

\* prompt of chat_with_document (3141-3168)
document_chat_prompt(document_count, doc_preview, user_question, language) ==
  IF document_count > 1
  THEN "You are an expert agricultural advisor analyzing " \o ToString(document_count)
       \o " farming documents. Document Content (preview): " \o doc_preview
       \o " Farmer's Question: " \o user_question \o " Provide a comprehensive answer in "
       \o lang_name(language) \o " that: [...] Respond in " \o lang_name(language)
       \o " ONLY."
  ELSE "You are an expert agricultural advisor analyzing a farming document. Document Content: "
       \o doc_preview \o " Farmer's Question: " \o user_question
       \o " Provide a detailed answer in " \o lang_name(language)
       \o " based on the document that: [...] Respond in " \o lang_name(language)
       \o " ONLY."

\* the prompts chat, upload_document and chat_with_document compose themselves
\* and hand to _get_gemini_response (1611, 3048, 3171)
PreComposedPrompts(l) ==
  {enhanced_message("", "Tomato Late Blight", "1", l),
   enhanced_message("how do I treat it", "Tomato Late Blight", "1", l),
   document_analysis_prompt("Soil test report of plot 4", l),
   document_chat_prompt(1, "Soil test report of plot 4", "is urea needed", l),
   document_chat_prompt(2, "Soil test report of plot 4", "is urea needed", l)}

\* prompts handed to _get_gemini_response without classification
GatewayPrompts(l) ==
  {"advice", "  ", "Soil analysis of my field shows low nitrogen"}
    \cup PreComposedPrompts(l)

\* a caller invokes _get_gemini_response itself
Generate ==
  /\ pc = "idle"
  /\ ~serving.active
  /\ \E l \in Langs : \E m \in GatewayPrompts(l) :
       \E n \in NativePath, r \in RestPath :
         /\ request' = [message |-> m, language |-> l]
         /\ env' = Env("none", n, r, NoClient, NoKey)
         /\ result' = gateway_response(m, l, n, r)
  /\ pc' = "done"
  /\ UNCHANGED <<preds, cfgVars, extVars, histVars, httpVars>>

\* the caller has taken the result; the next call starts from a clean frame
Return ==
  /\ pc = "done"
  /\ pc' = "idle"
  /\ ~serving.active
  /\ request' = NoRequest
  /\ preds' = NoPredicates
  /\ env' = NoEnv
  /\ result' = NoResult
  /\ UNCHANGED <<cfgVars, extVars, histVars, httpVars>>

NextOrch ==
  \/ \E m \in Messages, l \in Langs : Receive(m, l)
  \/ Classify
  \/ AnswerOutOfDomain
  \/ AnswerCrop
  \/ AnswerWeather
  \/ AnswerUpdate
  \/ AnswerMandi
  \/ AnswerScheme
  \/ AnswerSoil
  \/ AnswerEconomics
  \/ AnswerGeneral
  \/ Generate
  \/ Return

SpecOrch == Init /\ [][NextOrch]_vars

(***************************************************************************)
(* The HTTP endpoints as actions                                           *)
(***************************************************************************)
\* login (2329): a successful password check stores the email in the cookie;
\* the cookie's active_chat_session is left as it is
Login(c, u) ==
  /\ pc = "idle"
  /\ ~serving.active
  /\ cookie' = [cookie EXCEPT ![c].user_email = u]
  /\ last' = Reply("login", 302, "", "", 0, TRUE, NoResponse, FALSE)
  /\ UNCHANGED <<chats, serving, reached, orchVars, cfgVars, extVars, histVars>>

\* logout (2351-2356) pops user_email and language only
Logout(c) ==
  /\ pc = "idle"
  /\ ~serving.active
  /\ cookie' = [cookie EXCEPT ![c].user_email = Absent]
  /\ last' = Reply("logout", 302, "", "", 0, TRUE, NoResponse, FALSE)
  /\ UNCHANGED <<chats, serving, reached, orchVars, cfgVars, extVars, histVars>>

\* chat (1495-1525): authentication, the empty-message check, the active
\* session and the size check.  db tells whether the size query worked.
ChatCheck(c, data, l, db) ==
  /\ pc = "idle"
  /\ ~serving.active
  /\ LET message == Strip(data.message)
         user_query == Strip(data.userQuery)
         detected_diseases == data.detectedDiseases
     IN  IF cookie[c].user_email = Absent
         THEN /\ last' = Reply("chat", 401, "Authentication required", "", 0, TRUE,
                               NoResponse, FALSE)
              /\ UNCHANGED <<cookie, serving>>
         ELSE IF message = ""
         THEN /\ last' = Reply("chat", 400, "Message cannot be empty", "", 0, TRUE,
                               NoResponse, FALSE)
              /\ UNCHANGED <<cookie, serving>>
         ELSE \E current_session_id \in
                   (IF cookie[c].active_chat_session = Absent THEN FreshIds
                    ELSE {cookie[c].active_chat_session}) :
                LET v == validate_session_size(current_session_id, db)
                IN  /\ cookie' = [cookie EXCEPT
                                    ![c].active_chat_session = current_session_id]
                    /\ IF ~v.is_valid
                       THEN /\ last' = Reply("chat", 400, "Session size limit reached",
                                             current_session_id,
                                             StoredChars(current_session_id), db,
                                             NoResponse, FALSE)
                            /\ UNCHANGED serving
                       ELSE /\ serving' =
                                 [active |-> TRUE, client |-> c,
                                  user_email |-> cookie[c].user_email,
                                  session |-> current_session_id,
                                  message |-> IF detected_diseases # ""
                                              THEN enhanced_message(user_query,
                                                     detected_diseases, "1", l)
                                              ELSE message,
                                  language |-> l,
                                  diseases |-> detected_diseases # "",
                                  stored |-> StoredChars(current_session_id),
                                  db |-> db]
                            /\ last' = NoReply
  /\ UNCHANGED <<chats, reached, orchVars, cfgVars, extVars, histVars>>

\* InsertChat that also drops the rows the user holds under other session ids
InsertChat_single_session(user, session_id, chars) ==
  [s \in SessionIds |->
     [chats[s] EXCEPT ![user] = IF s = session_id THEN @ + chars ELSE 0]]

\* InsertChat that adds the row twice
InsertChat_twice(user, session_id, chars) ==
  [chats EXCEPT ![session_id][user] = @ + chars + chars]

\* InsertChat that stores the row under the first session id
InsertChat_first_session(user, session_id, chars) ==
  [chats EXCEPT !["s1"][user] = @ + chars]

\* the table after INSERT INTO Chats of a row of `chars` characters (1630-1643)
InsertChat(user, session_id, chars) ==
  [chats EXCEPT ![session_id][user] = @ + chars]

\* what chat hands to FarmingAI: the stripped message, or the enhanced
\* message when the request carries detected diseases
ChatRequests ==
  {[diseases |-> data.detectedDiseases # "",
    message |-> IF data.detectedDiseases # ""
                THEN enhanced_message(Strip(data.userQuery), data.detectedDiseases, "1", l)
                ELSE Strip(data.message),
    language |-> l] : data \in ChatBodies, l \in ChatLangs}

\* chat (1536-1615): ai_response for each request and each outcome of the two
\* transport paths, from _get_gemini_response when the request carries
\* detected diseases and from get_farming_response otherwise
chat_responses ==
  [x \in ChatRequests, n \in NativeOutcomes \cup {NoClient},
   r \in RestOutcomes \cup {NoKey} |->
     IF x.diseases
     THEN gateway_response(x.message, x.language, n, r)
     ELSE get_farming_response(Predicates(x.message), x.message, x.language,
                               Env("none", n, r, NoClient, NoKey))]

\* ai_response of the request being served
ai_response(n, r) ==
  chat_responses[[diseases |-> serving.diseases, message |-> serving.message,
                  language |-> serving.language], n, r]

\* ChatRespond with the insert placed before the response step, so that a
\* request whose response step raises has stored its turn already
ChatRespond_insert_first(chars, cap) ==
  /\ pc = "idle"
  /\ serving.active
  /\ \E n \in NativePath, r \in RestPath :
       LET response == ai_response(n, r)
           after == InsertChat(serving.user_email, serving.session, chars)
       IN  /\ TotalChars + chars <= cap * chars
           /\ chats' = after
           /\ reached' =
                IF SumOver(after[serving.session], Users) >= SESSION_SIZE_LIMIT_MB * MB
                THEN reached \cup {serving.session} ELSE reached
           /\ IF response.type = "raise"
              THEN last' = Reply("chat", 500, "Internal Server Error", serving.session,
                                 serving.stored, serving.db, NoResponse, TRUE)
              ELSE last' = Reply("chat", 200, "", serving.session,
                                 serving.stored, serving.db,
                                 [type |-> response.type, none |-> response.none,
                                  text |-> response.text],
                                 TRUE)
  /\ serving' = NoServing
  /\ UNCHANGED <<cookie, orchVars, cfgVars, extVars, histVars>>

\* chat (1536-1655): the response, the owner lookup, the insert and the
\* answer.  An exception of the response step leaves the handler before the
\* insert.  chars is the length of the turn and cap the most rows the table
\* holds; userdb and insertdb tell whether the two queries worked.
ChatRespond(chars, cap) ==
  /\ pc = "idle"
  /\ serving.active
  /\ \E n \in NativePath, r \in RestPath :
       LET response == ai_response(n, r)
       IN  IF response.type = "raise"
           THEN /\ last' = Reply("chat", 500, "Internal Server Error", serving.session,
                                 serving.stored, serving.db, NoResponse, FALSE)
                /\ UNCHANGED <<chats, reached>>
           ELSE \E userdb, insertdb \in BOOLEAN :
                  LET persisted == userdb /\ insertdb
                      counted == persisted /\ ~response.none
                      after == IF counted
                               THEN InsertChat(serving.user_email, serving.session, chars)
                               ELSE chats
                  IN  /\ counted => TotalChars + chars <= cap * chars
                      /\ chats' = after
                      /\ reached' =
                           IF SumOver(after[serving.session], Users)
                                >= SESSION_SIZE_LIMIT_MB * MB
                           THEN reached \cup {serving.session} ELSE reached
                      /\ last' = Reply("chat", 200, "", serving.session,
                                       serving.stored, serving.db,
                                       [type |-> response.type, none |-> response.none,
                                        text |-> response.text],
                                       persisted)
  /\ serving' = NoServing
  /\ UNCHANGED <<cookie, orchVars, cfgVars, extVars, histVars>>

\* the table after DELETE FROM Chats WHERE UserID = ... (1704-1708)
DeleteChats(user) ==
  [s \in SessionIds |-> [chats[s] EXCEPT ![user] = 0]]

\* clear_chat_history (1696-1723)
ClearHistory(c, db) ==
  /\ pc = "idle"
  /\ ~serving.active
  /\ IF cookie[c].user_email = Absent
     THEN /\ last' = Reply("clear", 401, "Authentication required", "", 0, TRUE,
                           NoResponse, FALSE)
          /\ UNCHANGED chats
     ELSE IF db
     THEN /\ chats' = DeleteChats(cookie[c].user_email)
          /\ last' = Reply("clear", 200, "", "", 0, TRUE, NoResponse, FALSE)
     ELSE /\ last' = Reply("clear", 500, "Failed to clear chat history", "", 0, FALSE,
                           NoResponse, FALSE)
          /\ UNCHANGED chats
  /\ UNCHANGED <<cookie, serving, reached, orchVars, cfgVars, extVars, histVars>>

\* create_session (1863-1882)
CreateSession(c) ==
  /\ pc = "idle"
  /\ ~serving.active
  /\ IF cookie[c].user_email = Absent
     THEN /\ last' = Reply("create", 401, "Authentication required", "", 0, TRUE,
                           NoResponse, FALSE)
          /\ UNCHANGED cookie
     ELSE \E new_session_id \in FreshIds :
            /\ cookie' = [cookie EXCEPT ![c].active_chat_session = new_session_id]
            /\ last' = Reply("create", 200, "", new_session_id, 0, TRUE, NoResponse, FALSE)
  /\ UNCHANGED <<chats, serving, reached, orchVars, cfgVars, extVars, histVars>>

\* activate_session (1884-1902): the id is whatever the URL holds
ActivateSession(c, session_id) ==
  /\ pc = "idle"
  /\ ~serving.active
  /\ IF cookie[c].user_email = Absent
     THEN /\ last' = Reply("activate", 401, "Authentication required", "", 0, TRUE,
                           NoResponse, FALSE)
          /\ UNCHANGED cookie
     ELSE /\ cookie' = [cookie EXCEPT ![c].active_chat_session = session_id]
          /\ last' = Reply("activate", 200, "", session_id, 0, TRUE, NoResponse, FALSE)
  /\ UNCHANGED <<chats, serving, reached, orchVars, cfgVars, extVars, histVars>>

Next ==
  \/ \E c \in Clients, u \in Users : Login(c, u)
  \/ \E c \in Clients : Logout(c)
  \/ \E c \in Clients, data \in ChatBodies, l \in ChatLangs, db \in BOOLEAN :
       ChatCheck(c, data, l, db)
  \/ ChatRespond(TurnChars, MaxRows)
  \/ \E c \in Clients, db \in BOOLEAN : ClearHistory(c, db)
  \/ \E c \in Clients : CreateSession(c)
  \/ \E c \in Clients, session_id \in SessionIds : ActivateSession(c, session_id)

Spec == Init /\ [][Next]_vars

\* one user sending turns of exactly MB characters, one after the other
NextTurns ==
  \/ \E c \in Clients : Login(c, "u1")
  \/ \E c \in Clients, data \in ChatBodies, l \in ChatLangs, db \in BOOLEAN :
       ChatCheck(c, data, l, db)
  \/ ChatRespond(MB, MaxTurns)

SpecTurns == Init /\ [][NextTurns]_vars

(***************************************************************************)
(* Properties                                                              *)
(***************************************************************************)
\* a call of get_farming_response has ended
Answered == pc = "done" /\ result.handler # "gateway"

\* a direct call of _get_gemini_response has ended
Generated == pc = "done" /\ result.handler = "gateway"

\* the native path gave no text: no client, an exception, or an empty .text
NativeFailed(n) == ~n.client \/ n.raises \/ n.text = ""

\* the REST path gave no text: no key, an exception, or an empty candidate
RestFailed(r) == ~r.key \/ r.raises \/ Strip(r.text) = ""

BothPathsFailed(n, r) == NativeFailed(n) /\ RestFailed(r)

\* the transport calls of the ended call that went over `path`
PathCalls(path) == {i \in DOMAIN result.calls : result.calls[i].path = path}

\* the ceiling in characters
Ceiling == SESSION_SIZE_LIMIT_MB * MB

\* the last response rejects a chat request because its session is full
RejectedAsFull == last.op = "chat" /\ last.error = "Session size limit reached"

\* C1, as stated: a chat turn is accepted iff the stored size of its session
\* before the write is below the 16 MB ceiling.
C1_AcceptedIffStoredBelowCeiling ==
  /\ serving.active => serving.stored < Ceiling
  /\ RejectedAsFull => last.stored >= Ceiling

\* C1, amended: a chat turn is accepted iff the size that
\* calculate_session_size reports is below the ceiling, where the reported
\* size is the stored size when the size query works and 0 when it fails; so
\* with a working size query and turns of exactly 1 MB, a turn is accepted
\* while fewer than 16 turns are stored and rejected once 16 are.
C1_AcceptedIffReportedBelowCeiling ==
  /\ serving.active => (IF serving.db THEN serving.stored ELSE 0) < Ceiling
  /\ RejectedAsFull => (last.db /\ last.stored >= Ceiling)
  /\ (serving.active /\ serving.db) => serving.stored \div MB < SESSION_SIZE_LIMIT_MB
  /\ RejectedAsFull => last.stored \div MB >= SESSION_SIZE_LIMIT_MB

\* C1: the seventeenth turn of 1 MB is rejected with exactly sixteen stored
C1_SeventeenthTurnRejected ==
  RejectedAsFull /\ last.db /\ last.stored = SESSION_SIZE_LIMIT_MB * MB

\* C2, as stated: once the stored size of a session has reached the ceiling,
\* no later chat request on that session id is accepted, even when its size
\* query works.
C2_NeverAcceptedAgain ==
  (serving.active /\ serving.db) => serving.session \notin reached

\* C2, amended: a chat request whose size query works is accepted only while
\* the stored size of its session is below the ceiling; and the stored size of
\* a session never decreases by chat, create session or activate session:
\* only a successful clear history lowers it, after which the same session
\* id accepts chat requests again.
C2_FullUntilCleared ==
  [][ /\ (serving'.active /\ ~serving.active /\ serving'.db)
           => StoredChars(serving'.session) < Ceiling
      /\ \A s \in SessionIds :
           StoredChars(s)' < StoredChars(s) => (last'.op = "clear" /\ last'.status = 200)
    ]_vars

\* C2: a chat request is accepted, with a working size query, on a session
\* whose stored size had reached the ceiling
C2_AcceptedAfterClear ==
  serving.active /\ serving.db /\ serving.session \in reached

\* C3, as stated: get_farming_response never raises and never returns None
\* or an empty string; taken here for a process with the native client
\* built and weather data that is absent or complete.
C3_ReturnsNonEmptyString ==
  (Answered /\ gemini_model /\ env.w # "malformed")
    => (result.type = "return" /\ ~result.none /\ result.text # "")

\* C4, as stated: every authenticated, non-empty, non-session-full chat
\* request ends with status 200 and a response string; taken here for a
\* process with the native client built.
C4_ChatEndsWithResponse ==
  (last.op = "chat" /\ last.status \notin {400, 401} /\ gemini_model)
    => (last.status = 200 /\ last.response.type = "return" /\ ~last.response.none)

\* C5, as stated: in _get_gemini_response, when the native path fails the
\* REST path is attempted; when both fail the call raises one error naming
\* both failures; and the call never returns without text; taken here for a
\* process with the native client built.
C5_GatewayFallback ==
  (Generated /\ gemini_model) =>
    /\ NativeFailed(env.n1) => PathCalls("rest") # {}
    /\ BothPathsFailed(env.n1, env.r1) =>
         /\ result.type = "raise"
         /\ Contains("Native: ", result.error)
         /\ Contains("REST: ", result.error)
    /\ result.type = "return" => result.text # ""

\* C6: for a message that is_farming_related rejects, get_farming_response
\* returns the out-of-domain template of the language, the English one for a
\* code without an entry, and calls no transport path and no provider.
C6_OutOfDomainTemplate ==
  (Answered /\ ~preds.farming) =>
    /\ result.type = "return"
    /\ ~result.none
    /\ result.text = IF request.language \in DOMAIN out_of_domain_responses
                     THEN out_of_domain_responses[request.language]
                     ELSE out_of_domain_responses["en"]
    /\ result.calls = <<>>
    /\ result.providers = <<>>

\* C6: a non-farming message in a language without a template is answered
C6_UnknownLanguageAnswered ==
  /\ Answered
  /\ ~preds.farming
  /\ request.language = "xx"
  /\ result.text = out_of_domain_responses["en"]

\* C7: for a general farming message, when both transport paths fail,
\* get_farming_response returns the connection apology of the language, the
\* English one for a code without an entry, after one call per configured
\* path at most.
C7_GeneralApology ==
  (Answered /\ result.handler = "general" /\ BothPathsFailed(env.n1, env.r1)) =>
    /\ result.type = "return"
    /\ ~result.none
    /\ result.text = IF request.language \in DOMAIN connection_error_messages
                     THEN connection_error_messages[request.language]
                     ELSE connection_error_messages["en"]
    /\ result.attempts = <<"farming_prompt">>
    /\ Cardinality(PathCalls("native")) <= 1
    /\ Cardinality(PathCalls("rest")) <= 1
    /\ Len(result.calls) <= 2

\* C7: a general farming message met two failing paths, both of them called
C7_BothPathsFailedOnGeneral ==
  /\ Answered
  /\ result.handler = "general"
  /\ env.n1.client /\ env.n1.raises
  /\ env.r1.key /\ env.r1.raises
  /\ Len(result.calls) = 2
  /\ request.language = "ta"
  /\ result.text = "<connection_error:ta>"

\* the text a data handler falls back to
RawData(handler, message) ==
  CASE handler = "mandi" -> mandi_data_context(message)
    [] handler = "scheme" -> scheme_summary
    [] handler = "soil" -> soil_analysis_json
    [] OTHER -> economics_data_context(message)

\* C8: for a message handled as mandi, scheme, soil or economics, when both
\* transport paths fail the handler returns the fetched data as text, never
\* an apology and never an exception.
C8_RawDataOnFailure ==
  (Answered /\ result.handler \in {"mandi", "scheme", "soil", "economics"}
     /\ BothPathsFailed(env.n1, env.r1)) =>
    /\ result.type = "return"
    /\ ~result.none
    /\ result.text = RawData(result.handler, request.message)
    /\ result.text \notin ApologyTexts

\* C8: the mandi handler fell back to its data after two failing paths
C8_MandiFellBackToData ==
  /\ Answered
  /\ result.handler = "mandi"
  /\ env.n1.client /\ env.n1.raises
  /\ env.r1.key /\ env.r1.raises
  /\ result.text = mandi_data_context(request.message)

\* one prompt's attempt with a try around each path gives a text
GuardedGives(n, r) == (n.client /\ ~n.raises /\ n.text # "") \/ (r.key /\ ~r.raises)

\* one prompt's attempt inside a single try gives a text
OneTryGives(n, r) ==
  IF n.client /\ n.raises THEN FALSE
  ELSE (n.client /\ n.text # "") \/ (r.key /\ ~r.raises)

\* C9, as stated: for crop, weather and update messages, when the first
\* generate attempt fails there is exactly one further attempt with a second
\* template, and the apology is returned only when that one fails too; taken
\* here for a process with the native client built.
C9_SecondTemplateRetry ==
  (Answered /\ result.handler \in {"crop", "weather", "update"} /\ gemini_model
     /\ result.attempts # <<>> /\ ~GuardedGives(env.n1, env.r1)) =>
    /\ Len(result.attempts) = 2
    /\ result.attempts[1] # result.attempts[2]

\* C9, amended: only the crop handler with usable weather data has a second
\* template: when neither path gives a text for crop_prompt it tries
\* fallback_prompt once and returns the crop apology only when that gives
\* nothing too.  The crop handler without weather data, the weather handler
\* without formatted weather and the update handler try one prompt and return
\* their apology when it gives nothing; the weather handler with formatted
\* weather returns it without any attempt; the crop handler with malformed
\* weather data raises before any attempt.  Inside the single try of
\* weather_prompt and fallback_prompt an exception of the native path skips
\* the REST path.
C9_RetryOnlyForCropWithWeather ==
  /\ (Answered /\ result.handler = "crop" /\ env.w = "ok") =>
       /\ result.type = "return"
       /\ result.attempts = IF GuardedGives(env.n1, env.r1) THEN <<"crop_prompt">>
                            ELSE <<"crop_prompt", "fallback_prompt">>
       /\ (result.text \in ApologyTexts) <=>
            (~GuardedGives(env.n1, env.r1) /\ ~OneTryGives(env.n2, env.r2))
  /\ (Answered /\ result.handler = "crop" /\ env.w = "none") =>
       /\ result.type = "return"
       /\ result.attempts = <<"fallback_prompt">>
       /\ (result.text \in ApologyTexts) <=> ~OneTryGives(env.n1, env.r1)
  /\ (Answered /\ result.handler = "crop" /\ env.w = "malformed") =>
       (result.type = "raise" /\ result.attempts = <<>>)
  /\ (Answered /\ result.handler = "weather" /\ env.w = "ok") =>
       (result.type = "return" /\ result.attempts = <<>> /\ result.calls = <<>>)
  /\ (Answered /\ result.handler = "weather" /\ env.w # "ok") =>
       /\ result.type = "return"
       /\ result.attempts = <<"weather_prompt">>
       /\ (result.text \in ApologyTexts) <=> ~OneTryGives(env.n1, env.r1)
  /\ (Answered /\ result.handler = "update") =>
       /\ result.type = "return"
       /\ result.attempts = <<"update_prompt">>
       /\ (result.text \in ApologyTexts) <=> ~GuardedGives(env.n1, env.r1)

\* C9: the crop handler tried both templates and returned its apology
C9_CropApologyAfterTwoAttempts ==
  /\ Answered
  /\ result.handler = "crop"
  /\ result.attempts = <<"crop_prompt", "fallback_prompt">>
  /\ result.text \in ApologyTexts

MaxCalls == 2

\* messages handed to the classifier: farming and non-farming terms together,
\* non-farming terms alone, greetings with and without other terms, upper
\* case, empty and whitespace-only messages, and messages without any term
ClassifyInputs ==
  {"wheat cricket movie politics", "crop cricket",
   "tell me about cricket and movies", "cricket football", "history of cinema",
   "hello cricket movie", "hello mandi price", "namaste",
   "hi what crop should I grow in this soil", "CRICKET MOVIE", "Wheat",
   "suggest something", "", "   ", "\t\n"}

\* a call kept in the history
Classification(call, message, category) ==
  [call |-> call, message |-> message, category |-> category]

\* a classification that depends on the calls made before it
classify_by_history(message) ==
  IF classified # <<>> THEN "general" ELSE HandlerOf(Predicates(message))

\* for each input, what is_farming_related says of it
farming_related == [m \in ClassifyInputs \cup {PyNone} |-> is_farming_related(m)]

\* for each input, the handler the if-chain of get_farming_response selects
handlers == [m \in ClassifyInputs |-> HandlerOf(Predicates(m))]

\* the handler get_farming_response (1153-1192) selects for a message
classify(message) == handlers[message]

\* is_farming_related called on its own; the message may be None
ClassifierCall(m) ==
  /\ pc = "idle"
  /\ ~serving.active
  /\ Len(classified) < MaxCalls
  /\ classified' = Append(classified,
                          Classification("is_farming_related", m,
                                         IF farming_related[m] THEN "farming"
                                         ELSE "out_of_domain"))
  /\ UNCHANGED <<orchVars, cfgVars, extVars, httpVars>>

\* the predicates and the if-chain of get_farming_response on a message
DispatchCall(m) ==
  /\ pc = "idle"
  /\ ~serving.active
  /\ Len(classified) < MaxCalls
  /\ classified' = Append(classified,
                          Classification("get_farming_response", m, classify(m)))
  /\ UNCHANGED <<orchVars, cfgVars, extVars, httpVars>>

NextClassify ==
  \/ \E m \in ClassifyInputs \cup {PyNone} : ClassifierCall(m)
  \/ \E m \in ClassifyInputs : DispatchCall(m)

SpecClassify == Init /\ [][NextClassify]_vars

(***************************************************************************)
(* Properties of the classifier                                            *)
(***************************************************************************)
\* the entries of ks that message holds as substrings
TermsIn(ks, message) == {k \in ks : Contains(k, message)}

\* for each input, the farming keywords, the non-farming topics and the
\* greeting it holds
terms ==
  [m \in ClassifyInputs \cup {PyNone} |->
     [farming |-> IF m = PyNone THEN {} ELSE TermsIn(farming_keywords, m),
      non_farming |-> IF m = PyNone THEN {} ELSE TermsIn(non_farming_topics, m),
      greeting |-> is_greeting(Normalise(m))]]

\* the classifications made so far
Classifications == {classified[i] : i \in DOMAIN classified}

\* C11: a message that holds a farming keyword as a substring is never
\* classified as out of domain, whatever number of non-farming topics it
\* holds too.
C11_FarmingTermNeverRejected ==
  \A e \in Classifications :
    terms[e.message].farming # {}
      => e.category # "out_of_domain"

\* C11: a message with one farming keyword and three non-farming topics was
\* classified
C11_FarmingAmongNonFarming ==
  \E e \in Classifications :
    /\ e.message = "wheat cricket movie politics"
    /\ Cardinality(terms[e.message].non_farming) >= 3
    /\ e.category # "out_of_domain"

\* C12, as stated: a message with two or more distinct non-farming topics
\* and no farming keyword is classified as out of domain.
C12_TwoNonFarmingRejected ==
  \A e \in Classifications :
    (/\ Cardinality(terms[e.message].non_farming) >= 2
     /\ terms[e.message].farming = {})
      => e.category = "out_of_domain"

\* C12, amended: a message with two or more distinct non-farming topics, no
\* farming keyword and no greeting is classified as out of domain; with a
\* greeting in it the message is accepted as farming-related.
C12_TwoNonFarmingRejectedUnlessGreeting ==
  \A e \in Classifications :
    (/\ Cardinality(terms[e.message].non_farming) >= 2
     /\ terms[e.message].farming = {})
      => (e.category = "out_of_domain" <=> ~terms[e.message].greeting)

\* C12: the message of two non-farming topics was rejected
C12_CricketAndMoviesRejected ==
  \E e \in Classifications :
    /\ e.message = "tell me about cricket and movies"
    /\ e.category = "out_of_domain"

\* the handlers of the sub-intents
SubIntentHandlers == {"crop", "weather", "update", "mandi", "scheme", "soil", "economics"}

\* C13, as stated: a message with a word-boundary match of a greeting is
\* classified as a greeting whatever else it holds: it is accepted and no
\* sub-intent handler is selected for it.
C13_GreetingShortCircuits ==
  \A e \in Classifications :
    (e.call = "get_farming_response" /\ terms[e.message].greeting)
      => (e.category # "out_of_domain" /\ e.category \notin SubIntentHandlers)

\* C14, as stated: for the message "namaste", in any language,
\* get_farming_response returns without a call on either transport path;
\* taken here for a process with the native client built.
C14_NamasteWithoutGeneration ==
  (Answered /\ request.message = "namaste" /\ gemini_model)
    => (result.type = "return" /\ result.calls = <<>>)

\* a message that is None, empty or made of whitespace only
Blank(m) == m = PyNone \/ \A i \in 1..Len(m) : CharAt(m, i) \in Whitespace

\* C15: an empty, whitespace-only or None message is classified as out of
\* domain, by is_farming_related and by the if-chain of get_farming_response.
C15_BlankIsOutOfDomain ==
  \A e \in Classifications : Blank(e.message) => e.category = "out_of_domain"

\* C15: is_farming_related rejected None and then a whitespace-only message
C15_NoneAndWhitespaceRejected ==
  /\ Len(classified) = 2
  /\ classified[1] = Classification("is_farming_related", PyNone, "out_of_domain")
  /\ classified[2] = Classification("is_farming_related", "\t\n", "out_of_domain")

\* the categories a classification can give
Categories == {"out_of_domain", "farming", "general"} \cup SubIntentHandlers

ChatAnswers == serving.active /\ ~serving'.active

\* what the response body holds of a value FarmingAI handed back
BodyOf(response) ==
  [type |-> response.type, none |-> response.none, text |-> response.text]

\* the values FarmingAI can hand back for the request being served
Computed == {ai_response(n, r) : n \in NativePath, r \in RestPath}

\* C17: when the owner lookup or the insert fails, chat still answers 200
\* with the value FarmingAI handed back; a 500 comes only from an exception
\* of the response step; and one chat request adds at most one turn (of 1 MB
\* in these runs), and none when persisting failed.
C17_ResponseDespitePersistenceFailure ==
  [][ ChatAnswers =>
        /\ last'.op = "chat"
        /\ last'.status \in {200, 500}
        /\ last'.status = 200 =>
             \E v \in Computed : v.type = "return" /\ last'.response = BodyOf(v)
        /\ last'.status = 500 =>
             /\ \E v \in Computed : v.type = "raise"
             /\ ~last'.persisted
        /\ (\A v \in Computed : v.type = "return") => last'.status = 200
        /\ TotalChars' \in {TotalChars, TotalChars + MB}
        /\ ~last'.persisted => chats' = chats
    ]_vars

\* C17: chat answered 200 with a text although no row was inserted
C17_AnsweredWithoutRow ==
  /\ last.op = "chat"
  /\ last.status = 200
  /\ ~last.persisted
  /\ last.response.type = "return"
  /\ ~last.response.none
  /\ last.response.text # ""

\* C18: a chat request rejected because its session is full is answered 400
\* with the stored size of the session, which is at or above the ceiling,
\* and changes nothing else: no request is handed to FarmingAI, no row is
\* inserted and the cookie keeps its active session id.
C18_RejectionHasNoOtherEffect ==
  [][ (RejectedAsFull' /\ (last' # last \/ RejectedAsFull)) =>
        /\ last'.status = 400
        /\ last'.db
        /\ last'.stored = StoredChars(last'.session)
        /\ last'.stored >= SESSION_SIZE_LIMIT_MB * MB
        /\ ~serving.active /\ ~serving'.active
        /\ UNCHANGED <<chats, cookie, orchVars>>
        /\ \E c \in Clients : cookie[c].active_chat_session = last'.session
    ]_vars

\* C18: a request was rejected as full and the cookie still names the session
C18_RejectedWithSessionKept ==
  /\ RejectedAsFull
  /\ last.status = 400
  /\ ~serving.active
  /\ cookie["c1"].active_chat_session = last.session
  /\ StoredChars(last.session) >= SESSION_SIZE_LIMIT_MB * MB

\* C19, as stated: when the weather data a handler fetched is absent or
\* cannot be used, the handler still composes a prompt, calls the gateway
\* and returns; taken here for a process with the native client built.
C19_ProviderFailureRecovered ==
  (Answered /\ gemini_model /\ result.handler \in {"crop", "weather"} /\ env.w # "ok")
    => (result.type = "return" /\ result.calls # <<>>)

\* C20: the session id chat works with is the cookie's active session id
\* after get_active_session and is never absent; a row chat inserts is stored
\* under that id and under the requesting user, and no other row changes.
C20_TurnUnderActiveSession ==
  [][ /\ (~serving.active /\ serving'.active) =>
           /\ serving'.session # Absent
           /\ serving'.session \in SessionIds
           /\ serving'.session = cookie'[serving'.client].active_chat_session
      /\ (ChatAnswers /\ last'.persisted) =>
           /\ last'.session = serving.session
           /\ last'.session # Absent
           /\ last'.session = cookie[serving.client].active_chat_session
           /\ \A s \in SessionIds, u \in Users :
                chats'[s][u] # chats[s][u]
                  => (s = serving.session /\ u = serving.user_email)
    ]_vars

\* C20: a turn was stored under the second session id a browser was given
C20_TurnUnderSecondSession ==
  /\ last.op = "chat"
  /\ last.persisted
  /\ last.session = "s2"
  /\ chats["s2"]["u1"] > 0
  /\ chats["s1"]["u1"] > 0

(***************************************************************************)
(* Persistence of turns, prompts and transport paths                       *)
(***************************************************************************)
\* the texts a transport path of the gateway can hand back as generated text
GatewayTexts ==
  {t \in {n.text : n \in NativeOutcomes} \cup {Strip(n.text) : n \in NativeOutcomes}
         \cup {r.text : r \in RestOutcomes} \cup {Strip(r.text) : r \in RestOutcomes} :
     Strip(t) # ""}

PersonaOpening == "You are \"Krishi Mitra\""

\* the prompt opens with the persona wrapper
Wrapped(prompt) ==
  /\ Len(prompt) >= Len(PersonaOpening)
  /\ SubSeq(prompt, 1, Len(PersonaOpening)) = PersonaOpening

\* is_custom_prompt of every text handed to _get_gemini_response by a caller
\* outside FarmingAI
custom ==
  [m \in UNION {GatewayPrompts(l) : l \in Langs} |-> is_custom_prompt(m)]

\* the prompt an enriched handler composes for the request being answered
HandlerPrompt ==
  CASE result.handler = "mandi" -> mandi_prompt(request.message, request.language)
    [] result.handler = "scheme" -> scheme_prompt(request.message, request.language)
    [] result.handler = "soil" -> soil_prompt(request.message, request.language)
    [] result.handler = "economics" -> economics_prompt(request.message, request.language)
    [] OTHER -> ""

\* C22: a text that carries a pre-composed-prompt marker goes to both
\* transport paths as it is, and a text without one goes wrapped in the
\* persona; the prompts of the mandi, scheme, soil and economics handlers, of
\* disease detection with and without a question, and of document analysis
\* and document chat all carry a marker, so each is sent as composed.
C22_MarkedPromptSentUnmodified ==
  /\ Generated =>
       \A i \in DOMAIN result.calls :
         /\ custom[request.message] => result.calls[i].prompt = request.message
         /\ ~custom[request.message] =>
              /\ Wrapped(result.calls[i].prompt)
              /\ result.calls[i].prompt # request.message
         /\ request.message \in PreComposedPrompts(request.language) =>
              /\ result.calls[i].prompt = request.message
              /\ ~Wrapped(result.calls[i].prompt)
  /\ (Answered /\ result.handler \in {"mandi", "scheme", "soil", "economics"}) =>
       \A i \in DOMAIN result.calls :
         /\ result.calls[i].prompt = HandlerPrompt
         /\ ~Wrapped(result.calls[i].prompt)

\* C22: the disease prompt composed without a question went over both paths
\* as composed
C22_DiseasePromptSentAsComposed ==
  /\ Generated
  /\ request.message = enhanced_message("", "Tomato Late Blight", "1", request.language)
  /\ Len(result.calls) = 2
  /\ \A i \in DOMAIN result.calls : result.calls[i].prompt = request.message

\* the apology of the weather handler in the language of the request
WeatherApology ==
  DictGet(weather_error_messages, request.language, weather_error_messages["en"])

\* a call of get_farming_response has ended in the weather handler
WeatherAnswered == Answered /\ result.handler = "weather"

ThroughGateway ==
  \/ Generated
  \/ Answered /\ result.handler \in {"general", "mandi", "scheme", "soil", "economics"}

\* C24: one call of _get_gemini_response invokes the native client at most
\* once and the REST path at most once, the REST path last and only when the
\* native client was absent, raised or gave no text, and both with the same
\* prompt.
C24_NoInternalRetry ==
  ThroughGateway =>
    /\ Cardinality(PathCalls("native")) <= 1
    /\ Cardinality(PathCalls("rest")) <= 1
    /\ \A i \in PathCalls("native") : i = 1
    /\ \A i \in PathCalls("rest") : i = Len(result.calls)
    /\ PathCalls("native") # {} => env.n1.client
    /\ PathCalls("rest") # {} =>
         /\ env.r1.key
         /\ ~env.n1.client \/ env.n1.raises \/ env.n1.text = ""
    /\ \A i, j \in DOMAIN result.calls : result.calls[i].prompt = result.calls[j].prompt

\* C24: the native client raised and the REST path, called once after it,
\* gave the text
C24_RestAfterNativeFailure ==
  /\ Generated
  /\ env.n1.client /\ env.n1.raises
  /\ Len(result.calls) = 2
  /\ result.calls[1].path = "native"
  /\ result.calls[2].path = "rest"
  /\ result.type = "return"
  /\ result.text # ""

(***************************************************************************)
(* Chat requests served at the same time.  app.run (3653) serves each      *)
(* request on a thread of its own, and chat holds no lock and opens no     *)
(* transaction between its size check and its insert.                      *)
(***************************************************************************)
\* the JSON bodies of the chat requests sent at the same time
RaceBodies == {Body("advice", "", ""), Body("", "", "")}

\* chat (1495-1525) on thread t: authentication, the empty-message check,
\* the active session and the size check over the rows committed so far
RaceCheck(t, c, data, l, db) ==
  /\ inflight[t].at = "free"
  /\ LET message == Strip(data.message)
     IN  IF cookie[c].user_email = Absent
         THEN /\ last' = Reply("chat", 401, "Authentication required", "", 0, TRUE,
                               NoResponse, FALSE)
              /\ UNCHANGED <<cookie, inflight>>
         ELSE IF message = ""
         THEN /\ last' = Reply("chat", 400, "Message cannot be empty", "", 0, TRUE,
                               NoResponse, FALSE)
              /\ UNCHANGED <<cookie, inflight>>
         ELSE \E current_session_id \in
                   (IF cookie[c].active_chat_session = Absent THEN FreshIds
                    ELSE {cookie[c].active_chat_session}) :
                LET v == validate_session_size(current_session_id, db)
                IN  /\ cookie' = [cookie EXCEPT
                                    ![c].active_chat_session = current_session_id]
                    /\ IF ~v.is_valid
                       THEN /\ last' = Reply("chat", 400, "Session size limit reached",
                                             current_session_id,
                                             StoredChars(current_session_id), db,
                                             NoResponse, FALSE)
                            /\ UNCHANGED inflight
                       ELSE /\ inflight' =
                                 [inflight EXCEPT ![t] =
                                    [at |-> "checked",
                                     user_email |-> cookie[c].user_email,
                                     session |-> current_session_id,
                                     message |-> message, language |-> l,
                                     diseases |-> FALSE, db |-> db,
                                     response |-> NoResponse]]
                            /\ UNCHANGED last
  /\ UNCHANGED <<chats, serving, reached, late, orchVars, cfgVars, histVars,
               now, cacheVars, otpVars>>

\* chat (1536-1615) on thread t: the response step
RaceGenerate(t) ==
  /\ inflight[t].at = "checked"
  /\ \E n \in NativePath, r \in RestPath :
       LET response ==
             chat_responses[[diseases |-> inflight[t].diseases,
                             message |-> inflight[t].message,
                             language |-> inflight[t].language], n, r]
       IN  IF response.type = "raise"
           THEN /\ last' = Reply("chat", 500, "Internal Server Error",
                                 inflight[t].session, 0, inflight[t].db,
                                 NoResponse, FALSE)
                /\ inflight' = [inflight EXCEPT ![t] = NoFlight]
           ELSE /\ inflight' =
                     [inflight EXCEPT ![t].at = "generated",
                                      ![t].response =
                                        [type |-> response.type, none |-> response.none,
                                         text |-> response.text]]
                /\ UNCHANGED last
  /\ UNCHANGED <<chats, cookie, serving, reached, late, orchVars, cfgVars, histVars,
               now, cacheVars, otpVars>>

\* chat (1617-1655) on thread t: the owner lookup, the insert and the answer
RaceInsert(t, chars, cap) ==
  /\ inflight[t].at = "generated"
  /\ \E userdb, insertdb \in BOOLEAN :
       LET session == inflight[t].session
           persisted == userdb /\ insertdb
           counted == persisted /\ ~inflight[t].response.none
           after == IF counted THEN InsertChat(inflight[t].user_email, session, chars)
                    ELSE chats
       IN  /\ counted => TotalChars + chars <= cap * chars
           /\ chats' = after
           /\ reached' =
                IF SumOver(after[session], Users) >= SESSION_SIZE_LIMIT_MB * MB
                THEN reached \cup {session} ELSE reached
           /\ late' =
                IF counted /\ inflight[t].db
                   /\ StoredChars(session) >= SESSION_SIZE_LIMIT_MB * MB
                THEN [late EXCEPT ![session] = @ + 1] ELSE late
           /\ last' = Reply("chat", 200, "", session, 0, inflight[t].db,
                            inflight[t].response, persisted)
  /\ inflight' = [inflight EXCEPT ![t] = NoFlight]
  /\ UNCHANGED <<cookie, serving, orchVars, cfgVars, histVars,
               now, cacheVars, otpVars>>

\* one user whose browser sends chat requests of TurnChars characters without
\* waiting for the answers
NextRace ==
  \/ \E c \in Clients : Login(c, "u1")
  \/ \E t \in Threads, c \in Clients, data \in RaceBodies, db \in BOOLEAN :
       RaceCheck(t, c, data, "en", db)
  \/ \E t \in Threads : RaceGenerate(t)
  \/ \E t \in Threads : RaceInsert(t, TurnChars, MaxRows + 1)

SpecRace == Init /\ [][NextRace]_vars

\* C25, as stated: however chat requests on one session interleave, at most
\* one turn is persisted to the session after its committed size has reached
\* the ceiling; taken here for requests whose size query worked.
C25_OvershootBoundedByOneTurn ==
  \A s \in SessionIds : late[s] <= 1

\* C27, as stated: sessions are isolated between users: the stored size of a
\* session id changes only by a step of the one user who holds every row
\* under that id, so a chat request appends only to a session without rows of
\* another user and no request of one user changes the size or fullness of a
\* session holding rows of another.
C27_SessionsIsolated ==
  [][ \A s \in SessionIds :
        StoredChars(s)' # StoredChars(s) =>
          \E u \in Users :
            \A v \in Users \ {u} : chats[s][v] = 0 /\ chats'[s][v] = 0
    ]_vars

\* C28: when the size query fails or finds no rows, calculate_session_size
\* reports 0 and validate_session_size reports the session as valid whatever
\* is stored under it; so a chat request whose size query failed is never
\* rejected as full: it goes on to the response step and is answered 200, or
\* 500 when that step raises.
C28_SizeCheckFailsOpen ==
  /\ \A s \in SessionIds :
       /\ calculate_session_size(s, FALSE) = 0
       /\ validate_session_size(s, FALSE).is_valid
       /\ validate_session_size(s, FALSE).current_size = 0
       /\ StoredChars(s) = 0 =>
            /\ calculate_session_size(s, TRUE) = 0
            /\ validate_session_size(s, TRUE).is_valid
  /\ RejectedAsFull => last.db
  /\ (last.op = "chat" /\ ~last.db) =>
       /\ last.status \in {200, 500}
       /\ last.error # "Session size limit reached"

\* C28: a request on a session that holds the ceiling already was answered
\* 200 because its size query failed
C28_FullSessionAcceptedOnFailure ==
  /\ last.op = "chat"
  /\ last.status = 200
  /\ ~last.db
  /\ last.stored >= SESSION_SIZE_LIMIT_MB * MB
  /\ last.response.type = "return"

(***************************************************************************)
(* The weather cache and the mandi price cache                             *)
(***************************************************************************)
WEATHER_CACHE_DURATION == 300
cache_duration == 1800

\* the times at which calls are made: at the start, just before and exactly
\* when an entry stored at the start is five minutes old, and the same for
\* thirty minutes
CallTimes ==
  {0, WEATHER_CACHE_DURATION - 1, WEATHER_CACHE_DURATION,
   cache_duration - 1, cache_duration}

\* what the request to OpenWeather gives: a timeout or network error, a
\* status other than 200, or status 200 with a payload
WeatherFetches == {"timeout", "non200", "ok"}

\* what the request to data.gov.in gives: an exception, a status other than
\* 200, status 200 without records, or status 200 with records
MandiFetches == {"error", "non200", "empty", "records"}

\* the payload a fetch made at time t brings
Payload(kind, t) == [kind |-> kind, fetched |-> t]

\* a cache entry: the tuple (data, timestamp)
Entry(data, timestamp) == [held |-> TRUE, data |-> data, timestamp |-> timestamp]

\* get_cached_weather with <= in place of <
get_cached_weather_inclusive(location) ==
  IF /\ weather_cache[location].held
     /\ now - weather_cache[location].timestamp <= WEATHER_CACHE_DURATION
  THEN [none |-> FALSE, data |-> weather_cache[location].data]
  ELSE [none |-> TRUE, data |-> NoEntry.data]

\* get_cached_weather (476-483)
get_cached_weather(location) ==
  IF /\ weather_cache[location].held
     /\ now - weather_cache[location].timestamp < WEATHER_CACHE_DURATION
  THEN [none |-> FALSE, data |-> weather_cache[location].data]
  ELSE [none |-> TRUE, data |-> NoEntry.data]

\* cache_weather (485-487)
cache_weather(location, data) ==
  [weather_cache EXCEPT ![location] = Entry(data, now)]

\* what a call of a cached fetch gave
Read(cache, key, hit, none, data) ==
  [cache |-> cache, key |-> key, at |-> now, hit |-> hit, none |-> none, data |-> data]

\* _get_weather_data (710-785) when the request to OpenWeather gives o
GetWeatherData(location, o) ==
  /\ LET cached == get_cached_weather(location)
     IN  IF ~OPENWEATHER_API_KEY
         THEN /\ cache_read' = Read("weather", location, FALSE, TRUE, NoEntry.data)
              /\ UNCHANGED weather_cache
         ELSE IF ~cached.none
         THEN /\ cache_read' = Read("weather", location, TRUE, FALSE, cached.data)
              /\ UNCHANGED weather_cache
         ELSE IF o = "ok"
         THEN /\ weather_cache' = cache_weather(location, Payload(o, now))
              /\ cache_read' = Read("weather", location, FALSE, FALSE, Payload(o, now))
         ELSE /\ cache_read' = Read("weather", location, FALSE, TRUE, NoEntry.data)
              /\ UNCHANGED weather_cache
  /\ UNCHANGED <<now, OPENWEATHER_API_KEY, mandi_api_key, mandi_cache,
                 orchVars, cfgVars, httpVars, histVars, raceVars, otpVars>>

\* MandiPriceService._fetch_from_api (104-153) when the request to
\* data.gov.in gives o
FetchFromApi(commodity, state, district, o) ==
  /\ LET key == cache_key(commodity, state, district)
     IN  IF ~mandi_api_key
         THEN /\ cache_read' = Read("mandi", key, FALSE, TRUE, NoEntry.data)
              /\ UNCHANGED mandi_cache
         ELSE IF /\ mandi_cache[key].held
                 /\ now - mandi_cache[key].timestamp < cache_duration
         THEN /\ cache_read' = Read("mandi", key, TRUE, FALSE, mandi_cache[key].data)
              /\ UNCHANGED mandi_cache
         ELSE IF o = "records"
         THEN /\ mandi_cache' =
                   [mandi_cache EXCEPT ![key] = Entry(Payload("records", now), now)]
              /\ cache_read' = Read("mandi", key, FALSE, FALSE, Payload("records", now))
         ELSE /\ cache_read' = Read("mandi", key, FALSE, TRUE, NoEntry.data)
              /\ UNCHANGED mandi_cache
  /\ UNCHANGED <<now, OPENWEATHER_API_KEY, mandi_api_key, weather_cache,
                 orchVars, cfgVars, httpVars, histVars, raceVars, otpVars>>

\* time passes until t
CachePause(t) ==
  /\ t > now
  /\ now' = t
  /\ UNCHANGED <<cacheVars, orchVars, cfgVars, httpVars, histVars, raceVars, otpVars>>

NextCache ==
  \/ \E l \in Locations, o \in WeatherFetches : GetWeatherData(l, o)
  \/ \E q \in MandiQueries, o \in MandiFetches :
       FetchFromApi(q.commodity, q.state, q.district, o)
  \/ \E t \in CallTimes : CachePause(t)

\* a process with gemini configured, and each data key set or not
InitCaches ==
  /\ gemini_model = TRUE
  /\ GEMINI_API_KEY = TRUE
  /\ InitCall /\ InitHttp /\ InitHist /\ InitRace /\ InitOtp
  /\ EmptyCaches
  /\ OPENWEATHER_API_KEY \in BOOLEAN
  /\ mandi_api_key \in BOOLEAN

SpecCache == InitCaches /\ [][NextCache]_vars

\* the entry the last call looked at, and the lifetime of its cache
ReadEntry(r) ==
  IF r.cache = "weather" THEN weather_cache[r.key] ELSE mandi_cache[r.key]
ReadLifetime(r) ==
  IF r.cache = "weather" THEN WEATHER_CACHE_DURATION ELSE cache_duration

\* the entry under key changed in this step by a successful fetch for that
\* key, made because the key held nothing younger than the lifetime
Overwritten(cache, key, before, after, lifetime) ==
  /\ cache_read'.cache = cache
  /\ cache_read'.key = key
  /\ ~cache_read'.hit
  /\ ~cache_read'.none
  /\ cache_read'.data.fetched = now
  /\ after = Entry(cache_read'.data, now)
  /\ ~(before.held /\ now - before.timestamp < lifetime)

\* C26: a call answered from a cache returns the data stored under its key
\* less than 300 seconds (weather) or 1800 seconds (mandi) before the call
\* and leaves both caches as they are; an entry changes only when a fetch for
\* its own key succeeds with data, which then replaces the entry together
\* with the time of the fetch; a failed or empty fetch and the passing of
\* time change no entry.
C26_CacheNeverStale ==
  [][ /\ \A l \in Locations :
           weather_cache'[l] # weather_cache[l] =>
             Overwritten("weather", l, weather_cache[l], weather_cache'[l],
                         WEATHER_CACHE_DURATION)
      /\ \A k \in MandiKeys :
           mandi_cache'[k] # mandi_cache[k] =>
             Overwritten("mandi", k, mandi_cache[k], mandi_cache'[k], cache_duration)
      /\ (cache_read' # cache_read /\ cache_read'.hit) =>
           /\ ReadEntry(cache_read').held
           /\ cache_read'.data = ReadEntry(cache_read').data
           /\ now - ReadEntry(cache_read').timestamp >= 0
           /\ now - ReadEntry(cache_read').timestamp < ReadLifetime(cache_read')
           /\ UNCHANGED <<weather_cache, mandi_cache>>
      /\ (cache_read' # cache_read /\ cache_read'.none) =>
           UNCHANGED <<weather_cache, mandi_cache>>
    ]_vars

\* C26: weather data stored 299 seconds before was returned from the cache,
\* and an entry that has outlived the five minutes since is still held
C26_HitJustBeforeExpiry ==
  /\ cache_read.cache = "weather"
  /\ cache_read.hit
  /\ cache_read.at - weather_cache[cache_read.key].timestamp = WEATHER_CACHE_DURATION - 1
  /\ \E l \in Locations :
       /\ weather_cache[l].held
       /\ now - weather_cache[l].timestamp >= WEATHER_CACHE_DURATION

(***************************************************************************)
(* The password-reset flow: send_otp, verify_otp, reset_password           *)
(***************************************************************************)
\* timedelta(minutes=5) in seconds (2471), the wait of the rate limit (2458)
\* and the tries verify_otp allows (2525)
OtpLifetime == 300
ResendWait == 60
MaxAttempts == 5

\* most OTPs send_otp stores for one email, and most reset tokens verify_otp
\* hands out, in a run
MaxOtps == 2
MaxTokens == 2

\* the times at which requests arrive: just before and at the end of the
\* wait, at the expiry of an OTP stored at the start, and just after it
OtpTimes == {0, ResendWait - 1, ResendWait, OtpLifetime, OtpLifetime + 1}

\* str(random.randint(100000, 999999))
OtpCodes == {"246810"}

\* the JSON fields the requests carry
EmailInputs == {" U1 ", "nobody", ""}
OtpInputs == OtpCodes \cup {" 246810 ", "135791", ""}
PasswordInputs == {"secret1", "abc", ""}
TokenInputs == 0..MaxTokens

\* data.get('email', '').strip().lower()
NormaliseEmail(email) == Lower(Strip(email))

\* the normalised emails and OTP inputs, by input
emails == [e \in EmailInputs |-> NormaliseEmail(e)]
otp_inputs == [o \in OtpInputs |-> Strip(o)]

\* bcrypt.generate_password_hash(new_password).decode('utf-8')
generate_password_hash(password) == "<bcrypt:" \o password \o ">"

\* the check of reset_password without the comparison of the token
reset_session_valid_any_token(stored, token) == stored.verified

\* reset_password (2580): stored.get('verified') and
\* stored.get('reset_token') == token
reset_session_valid(stored, token) ==
  stored.verified /\ stored.reset_token = token

\* send_otp (2436-2506); db tells whether the lookup in Users worked, smtp
\* whether the mail went out, otp_code is what random.randint gives
send_otp(email_input, db, smtp, otp_code) ==
  /\ LET email == emails[email_input]
     IN  IF email = ""
         THEN /\ otp_reply' = OtpReply("send", 400, "", "", 0)
              /\ UNCHANGED <<otp_store, minted, issued>>
         ELSE IF ~db \/ email \notin Users
         THEN /\ otp_reply' = OtpReply("send", 404, "", "", 0)
              /\ UNCHANGED <<otp_store, minted, issued>>
         ELSE IF otp_store[email].held /\ now - otp_store[email].sent_at < ResendWait
         THEN /\ otp_reply' = OtpReply("send", 429, "", "", 0)
              /\ UNCHANGED <<otp_store, minted, issued>>
         ELSE /\ Len(issued[email]) < MaxOtps
              /\ otp_store' =
                   [otp_store EXCEPT ![email] =
                      [held |-> TRUE, otp |-> otp_code, expiry |-> now + OtpLifetime,
                       verified |-> FALSE, attempts |-> 0,
                       token |-> Len(issued[email]) + 1,
                       sent_at |-> now, reset_token |-> 0]]
              /\ issued' = [issued EXCEPT ![email] = Append(@, now)]
              /\ otp_reply' = OtpReply("send", 200, email,
                                       IF smtp THEN "" ELSE otp_code,
                                       Len(issued[email]) + 1)
              /\ UNCHANGED minted
  /\ UNCHANGED <<now, passwords, granted, spent, cacheVars,
                 orchVars, cfgVars, httpVars, histVars, raceVars>>

\* verify_otp (2507-2557)
verify_otp(email_input, otp_given) ==
  /\ LET email == emails[email_input]
         otp_input == otp_inputs[otp_given]
     IN  IF email = "" \/ otp_input = ""
         THEN /\ otp_reply' = OtpReply("verify", 400, "", "", 0)
              /\ UNCHANGED <<otp_store, minted, granted>>
         ELSE IF email \notin Users \/ ~otp_store[email].held
         THEN /\ otp_reply' = OtpReply("verify", 400, "", "", 0)
              /\ UNCHANGED <<otp_store, minted, granted>>
         ELSE IF otp_store[email].attempts >= MaxAttempts
         THEN /\ otp_store' = [otp_store EXCEPT ![email] = NoOtp]
              /\ otp_reply' = OtpReply("verify", 429, "", "", 0)
              /\ UNCHANGED <<minted, granted>>
         ELSE IF now > otp_store[email].expiry
         THEN /\ otp_store' = [otp_store EXCEPT ![email] = NoOtp]
              /\ otp_reply' = OtpReply("verify", 410, "", "", 0)
              /\ UNCHANGED <<minted, granted>>
         ELSE IF otp_input # otp_store[email].otp
         THEN /\ otp_store' = [otp_store EXCEPT ![email].attempts = @ + 1]
              /\ otp_reply' = OtpReply("verify", 400, "", "", 0)
              /\ UNCHANGED <<minted, granted>>
         ELSE /\ minted < MaxTokens
              /\ minted' = minted + 1
              /\ otp_store' = [otp_store EXCEPT ![email].attempts = @ + 1,
                                                ![email].verified = TRUE,
                                                ![email].reset_token = minted + 1]
              /\ granted' = [granted EXCEPT ![email] = minted + 1]
              /\ otp_reply' = OtpReply("verify", 200, email, otp_input, minted + 1)
  /\ UNCHANGED <<now, passwords, issued, spent, cacheVars,
                 orchVars, cfgVars, httpVars, histVars, raceVars>>

\* reset_password (2560-2604); db tells whether the UPDATE worked
reset_password(email_input, new_password, token, db) ==
  /\ LET email == emails[email_input]
     IN  IF email = "" \/ new_password = "" \/ token = 0
         THEN /\ otp_reply' = OtpReply("reset", 400, "", "", 0)
              /\ UNCHANGED <<otp_store, passwords, spent>>
         ELSE IF Len(new_password) < 6
         THEN /\ otp_reply' = OtpReply("reset", 400, "", "", 0)
              /\ UNCHANGED <<otp_store, passwords, spent>>
         ELSE IF email \notin Users \/ ~otp_store[email].held
         THEN /\ otp_reply' = OtpReply("reset", 400, "", "", 0)
              /\ UNCHANGED <<otp_store, passwords, spent>>
         ELSE IF ~reset_session_valid(otp_store[email], token)
         THEN /\ otp_reply' = OtpReply("reset", 403, "", "", 0)
              /\ UNCHANGED <<otp_store, passwords, spent>>
         ELSE /\ otp_store' = [otp_store EXCEPT ![email] = NoOtp]
              /\ IF db
                 THEN /\ passwords' =
                           [passwords EXCEPT ![email] = generate_password_hash(new_password)]
                      /\ spent' = spent \cup {token}
                      /\ otp_reply' = OtpReply("reset", 200, email, token, 0)
                 ELSE /\ otp_reply' = OtpReply("reset", 500, email, token, 0)
                      /\ UNCHANGED <<passwords, spent>>
  /\ UNCHANGED <<now, minted, issued, granted, cacheVars,
                 orchVars, cfgVars, httpVars, histVars, raceVars>>

\* time passes until t
OtpPause(t) ==
  /\ t > now
  /\ now' = t
  /\ UNCHANGED <<otpVars, cacheVars, orchVars, cfgVars, httpVars, histVars, raceVars>>

NextOtp ==
  \/ \E e \in EmailInputs, db, smtp \in BOOLEAN, c \in OtpCodes : send_otp(e, db, smtp, c)
  \/ \E e \in EmailInputs, o \in OtpInputs : verify_otp(e, o)
  \/ \E e \in EmailInputs, p \in PasswordInputs, t \in TokenInputs, db \in BOOLEAN :
       reset_password(e, p, t, db)
  \/ \E t \in OtpTimes : OtpPause(t)

\* a process with gemini and both data keys configured
InitFlow ==
  /\ gemini_model = TRUE
  /\ GEMINI_API_KEY = TRUE
  /\ InitCall /\ InitHttp /\ InitHist /\ InitRace /\ InitCache /\ InitOtp

SpecOtp == InitFlow /\ [][NextOtp]_vars

\* C29: reset_password changes the password of an email only when otp_store
\* holds an entry for it that a successful verify_otp marked verified and
\* the supplied token is the reset token of the latest successful
\* verification, a token that has changed no password before; a request
\* that passes these checks deletes the entry, whether the UPDATE worked or
\* not; and an entry becomes verified only by a successful verify_otp.  The
\* requests are handled one after the other.
C29_ResetOnlyAfterVerification ==
  [][ /\ \A u \in Users :
           passwords'[u] # passwords[u] =>
             /\ otp_store[u].held
             /\ otp_store[u].verified
             /\ otp_reply'.op = "reset"
             /\ otp_reply'.status = 200
             /\ otp_reply'.email = u
             /\ otp_reply'.given = otp_store[u].reset_token
             /\ otp_reply'.given = granted[u]
             /\ otp_reply'.given \notin spent
             /\ ~otp_store'[u].held
      /\ (otp_reply' # otp_reply /\ otp_reply'.op = "reset"
            /\ otp_reply'.status \in {200, 500}) =>
             /\ otp_store[otp_reply'.email].verified
             /\ otp_reply'.given = otp_store[otp_reply'.email].reset_token
             /\ ~otp_store'[otp_reply'.email].held
      /\ \A u \in Users :
           (otp_store'[u].verified /\ ~otp_store[u].verified) =>
             /\ otp_reply'.op = "verify"
             /\ otp_reply'.status = 200
             /\ otp_store'[u].reset_token = granted'[u]
             /\ otp_store'[u].reset_token \notin spent
    ]_vars

\* C29: a reset token of the latest verification changed the password and
\* the entry is gone
C29_PasswordChangedOnce ==
  /\ otp_reply.op = "reset"
  /\ otp_reply.status = 200
  /\ passwords["u1"] = generate_password_hash("secret1")
  /\ otp_reply.given = granted["u1"]
  /\ otp_reply.given \in spent
  /\ ~otp_store["u1"].held

\* C30, as stated: verify_otp succeeds only for the stored code, not past
\* the expiry and with fewer than five attempts made; an OTP with five
\* attempts made or past its expiry never verifies; and send_otp stores a
\* new OTP for an email at most once per 60 seconds.
C30_VerifyLimitedAndRateLimited ==
  [][ /\ (otp_reply' # otp_reply /\ otp_reply'.op = "verify"
            /\ otp_reply'.status = 200) =>
             /\ otp_store[otp_reply'.email].held
             /\ otp_reply'.given = otp_store[otp_reply'.email].otp
             /\ now <= otp_store[otp_reply'.email].expiry
             /\ otp_store[otp_reply'.email].attempts < MaxAttempts
      /\ \A u \in Users :
           (/\ otp_store[u].held
            /\ otp_store[u].attempts >= MaxAttempts \/ now > otp_store[u].expiry) =>
             \/ otp_store'[u] = otp_store[u]
             \/ ~otp_store'[u].held
             \/ issued'[u] # issued[u]
      /\ \A u \in Users :
           (issued'[u] # issued[u] /\ issued[u] # <<>>) =>
             now - issued[u][Len(issued[u])] >= ResendWait
    ]_vars
====
